---- MODULE Spec2Model ----
(***************************************************************************)
(* Model of the subscription manager of edgex-sse (src/submgr/submgr.go)   *)
(* together with the event pipeline function that sends on the channels    *)
(* it returns (src/functions/publish.go).                                  *)
(*                                                                         *)
(* Strings are sequences of one-character strings, so that HasPrefix,      *)
(* HasSuffix, len and the trailing-slash normalisation are computed as the *)
(* code computes them.  A *SubscriptionInfo is a handle in Recs; handle 0  *)
(* is the nil pointer.  A subscription id (the random token) is modelled   *)
(* by the handle of the record created with it; id 0 is the empty string.  *)
(* Every region the code runs under a lock is one atomic action.           *)
(***************************************************************************)
EXTENDS Integers, Sequences, FiniteSets, TLC

----------------------------------------------------------------------------
(* Bounds and configuration *)

\* Init(sublimit, ...): limit on simultaneous subscriptions
SubscriptionLimit == 2
\* Init(..., incexclimit, ...): limit on each of the include and exclude lists
IncludeExcludeLimit == 2
\* Init(..., bufsize, ...): buffer size of every created channel
ChanBufferSize == 1
\* Init(..., maxage, ...): idle age, in clock ticks
MaxIdleSubscriptionAge == 1
\* the clock stops at MaxTime
MaxTime == 3
\* records that can ever be created in one run
MaxRecs == 3
\* goroutines calling NewSubscription
NumCreators == 2
\* SSE request goroutines
NumHandlers == 2
\* SSE requests served at the same time beside the event pipeline
NumStreams == 1
\* events handed to the pipeline in one run
MaxEvents == 2
\* records created in the runs that have an SSE request goroutine
SseRecs == 2
\* records created in the runs that have several SSE requests at the same time
AttachRecs == 1
\* management request goroutines
NumClients == 2
\* records created in the runs that have a management request goroutine
MgmtRecs == 2

Recs == 1..MaxRecs
Nil == 0
Creators == 1..NumCreators
Handlers == 1..NumHandlers
Streams == 1..NumStreams
Clients == 1..NumClients
\* the goroutine that serves the requests when they come one at a time
Editors == { 1 }

\* Client goroutines followed lock by lock, the records they work on, and the
\* goroutine of ageOutTask
NumLockers == 2
LockRecs == 2
Lockers == 1..NumLockers
Sweeper == 0
LkThreads == { Sweeper } \cup Lockers
SLock == 0

\* The limit on the entries of a list in the runs that follow the slices of the
\* lists, and the prefixes included in them: an append in place needs a list of
\* three entries, and the sort moves entries when a shorter prefix arrives
SliceLimit == 4
SlicePrefixes == { <<"a">>, <<"b", "b">>, <<"c", "c">>, <<"d", "d">> }
\* the zero time.Time{}
ZeroTime == 0

\* Raw topic prefixes handed to Include/Exclude when the lists are explored
RawPrefixes == { <<>>, <<"a">>, <<"a", "/">>, <<"a", "/", "b">>, <<"b">> }
\* Raw topic prefixes handed to Include/Exclude in the concurrent specification
ConcPrefixes == { <<"a">> }
\* Topics of incoming events
Topics == { <<>>, <<"a">>, <<"a", "/", "b">>, <<"a", "b">>, <<"b">>, <<"b", "/">> }
\* Topics published in the concurrent specification
ConcTopics == { <<"a">> }

----------------------------------------------------------------------------
(* Utility functions *)

\* strings.HasPrefix
HasPrefix(s, prefix) ==
    /\ Len(prefix) <= Len(s)
    /\ SubSeq(s, 1, Len(prefix)) = prefix

\* strings.HasSuffix(s, "/")
HasSuffixSlash(s) == Len(s) > 0 /\ s[Len(s)] = "/"

\* endWithSlash without the append: the string is left as given
endWithSlash_asGiven(in) == in

\* endWithSlash, the condition it tests
endWithSlash(in) ==
    IF in # <<>> /\ ~HasSuffixSlash(in) THEN Append(in, "/") ELSE in

\* stringSliceRemove
stringSliceRemove(in, toRemove) == SelectSeq(in, LAMBDA s : s # toRemove)

\* byLength.Less on two strings
Less(a, b) == Len(a) < Len(b)

\* One pass of insertion sort: s[1..n-1] is placed, s[n] moves left while Less
RECURSIVE insertLast(_)
insertLast(s) ==
    LET n == Len(s) IN
    IF n >= 2 /\ Less(s[n], s[n-1])
    THEN Append(insertLast(Append(SubSeq(s, 1, n-2), s[n])), s[n-1])
    ELSE s

\* Faulty variant: the sort after the append is left out
byLengthSort_omitted(s) == s

\* sort.Sort(byLength(s)): insertion sort, which sort.Sort runs on short slices
RECURSIVE byLengthSort(_)
byLengthSort(s) ==
    IF Len(s) <= 1 THEN s
    ELSE insertLast(Append(byLengthSort(SubSeq(s, 1, Len(s)-1)), s[Len(s)]))

\* Remove each element of toRemove from list, in order (loops at 404-406, 449-451)
RECURSIVE removeAll(_, _)
removeAll(list, toRemove) ==
    IF toRemove = <<>> THEN list
    ELSE removeAll(stringSliceRemove(list, Head(toRemove)), Tail(toRemove))

\* Elements of a sequence
Range(s) == { s[i] : i \in 1..Len(s) }

----------------------------------------------------------------------------
(* Include / Exclude on the two lists of one subscription *)

\* What an Include or Exclude call leaves: the two lists and the error
Outcome(incs, excs, e) == [includes |-> incs, excludes |-> excs, err |-> e]

\* Faulty variant of Include: excludes that the prefix covers are removed as well
IncludeLists_crossCover(includes, excludes, rawPrefix) ==
    LET topicPrefix == endWithSlash(rawPrefix)
        remaining == SelectSeq(includes, LAMBDA i : ~HasPrefix(i, topicPrefix))
    IN  IF \E k \in 1..Len(excludes) : excludes[k] = topicPrefix
        THEN Outcome(includes,
                     SelectSeq(excludes, LAMBDA e : ~HasPrefix(e, topicPrefix)), "ok")
        ELSE IF \E k \in 1..Len(includes) : includes[k] = topicPrefix
        THEN Outcome(includes, excludes, "ok")
        ELSE IF Len(remaining) >= IncludeExcludeLimit
        THEN Outcome(remaining, excludes, "include limit reached")
        ELSE Outcome(byLengthSort(Append(remaining, topicPrefix)), excludes, "ok")

\* Faulty variant of Include: the limit test is > where the code has >=
IncludeLists_offByOne(includes, excludes, rawPrefix) ==
    LET topicPrefix == endWithSlash(rawPrefix)
        remaining == SelectSeq(includes, LAMBDA i : ~HasPrefix(i, topicPrefix))
    IN  IF \E k \in 1..Len(excludes) : excludes[k] = topicPrefix
        THEN Outcome(includes, stringSliceRemove(excludes, topicPrefix), "ok")
        ELSE IF \E k \in 1..Len(includes) : includes[k] = topicPrefix
        THEN Outcome(includes, excludes, "ok")
        ELSE IF Len(remaining) > IncludeExcludeLimit
        THEN Outcome(remaining, excludes, "include limit reached")
        ELSE Outcome(byLengthSort(Append(remaining, topicPrefix)), excludes, "ok")

\* Faulty variant of Include: the limit is tested on the length the list had
\* before the covered entries were removed
IncludeLists_staleLimit(includes, excludes, rawPrefix) ==
    LET topicPrefix == endWithSlash(rawPrefix)
        remaining == SelectSeq(includes, LAMBDA i : ~HasPrefix(i, topicPrefix))
    IN  IF \E k \in 1..Len(excludes) : excludes[k] = topicPrefix
        THEN Outcome(includes, stringSliceRemove(excludes, topicPrefix), "ok")
        ELSE IF \E k \in 1..Len(includes) : includes[k] = topicPrefix
        THEN Outcome(includes, excludes, "ok")
        ELSE IF Len(includes) >= IncludeExcludeLimit
        THEN Outcome(remaining, excludes, "include limit reached")
        ELSE Outcome(byLengthSort(Append(remaining, topicPrefix)), excludes, "ok")

\* Faulty variant of Exclude: the test for the prefix in the include list is left out
ExcludeLists_noCancel(includes, excludes, rawPrefix) ==
    LET topicPrefix == endWithSlash(rawPrefix)
        remaining == SelectSeq(excludes, LAMBDA e : ~HasPrefix(e, topicPrefix))
    IN  IF \E k \in 1..Len(excludes) : excludes[k] = topicPrefix
        THEN Outcome(includes, excludes, "ok")
        ELSE IF Len(remaining) >= IncludeExcludeLimit
        THEN Outcome(includes, remaining, "exclude limit reached")
        ELSE Outcome(includes, byLengthSort(Append(remaining, topicPrefix)), "ok")

\* Faulty variant of Exclude: a prefix that covers entries of the exclude list
\* removes them and is not stored itself
ExcludeLists_dropsCovered(includes, excludes, rawPrefix) ==
    LET topicPrefix == endWithSlash(rawPrefix)
        remaining == SelectSeq(excludes, LAMBDA e : ~HasPrefix(e, topicPrefix))
    IN  IF \E k \in 1..Len(includes) : includes[k] = topicPrefix
        THEN Outcome(stringSliceRemove(includes, topicPrefix), excludes, "ok")
        ELSE IF \E k \in 1..Len(excludes) : excludes[k] = topicPrefix
        THEN Outcome(includes, excludes, "ok")
        ELSE IF Len(remaining) >= IncludeExcludeLimit
        THEN Outcome(includes, remaining, "exclude limit reached")
        ELSE IF remaining # excludes
        THEN Outcome(includes, remaining, "ok")
        ELSE Outcome(includes, byLengthSort(Append(remaining, topicPrefix)), "ok")

\* Include, lines 382-412: the lists after the call and the error returned
IncludeLists(includes, excludes, rawPrefix) ==
    LET topicPrefix == endWithSlash(rawPrefix)
        includesToRemove == SelectSeq(includes, LAMBDA i : HasPrefix(i, topicPrefix))
        remaining == removeAll(includes, includesToRemove)
    IN  IF \E k \in 1..Len(excludes) : excludes[k] = topicPrefix
        THEN Outcome(includes, stringSliceRemove(excludes, topicPrefix), "ok")
        ELSE IF \E k \in 1..Len(includes) : includes[k] = topicPrefix
        THEN Outcome(includes, excludes, "ok")
        ELSE IF Len(remaining) >= IncludeExcludeLimit
        THEN Outcome(remaining, excludes, "include limit reached")
        ELSE Outcome(byLengthSort(Append(remaining, topicPrefix)), excludes, "ok")

\* Exclude, lines 429-457
ExcludeLists(includes, excludes, rawPrefix) ==
    LET topicPrefix == endWithSlash(rawPrefix)
        excludesToRemove == SelectSeq(excludes, LAMBDA e : HasPrefix(e, topicPrefix))
        remaining == removeAll(excludes, excludesToRemove)
    IN  IF \E k \in 1..Len(includes) : includes[k] = topicPrefix
        THEN Outcome(stringSliceRemove(includes, topicPrefix), excludes, "ok")
        ELSE IF \E k \in 1..Len(excludes) : excludes[k] = topicPrefix
        THEN Outcome(includes, excludes, "ok")
        ELSE IF Len(remaining) >= IncludeExcludeLimit
        THEN Outcome(includes, remaining, "exclude limit reached")
        ELSE Outcome(includes, byLengthSort(Append(remaining, topicPrefix)), "ok")

----------------------------------------------------------------------------
(* Matching one subscription against a topic *)

\* The exclude loop, lines 534-542: TRUE when an exclude disqualifies the topic
RECURSIVE excludedFrom(_, _, _)
excludedFrom(excludes, topic, k) ==
    IF k > Len(excludes) THEN FALSE
    ELSE IF Len(excludes[k]) > Len(topic) THEN FALSE
    ELSE IF HasPrefix(topic, excludes[k]) THEN TRUE
    ELSE excludedFrom(excludes, topic, k + 1)

\* Faulty variant of the include loop: the length test leaves the loop on >=
RECURSIVE useThisSub_shortExit(_, _, _, _)
useThisSub_shortExit(includes, excludes, topic, k) ==
    IF k > Len(includes) THEN FALSE
    ELSE IF Len(includes[k]) >= Len(topic) THEN FALSE
    ELSE IF HasPrefix(topic, includes[k]) THEN ~excludedFrom(excludes, topic, 1)
    ELSE useThisSub_shortExit(includes, excludes, topic, k + 1)

\* The include loop, lines 526-545, on a slash-terminated topic: useThisSub
RECURSIVE useThisSub(_, _, _, _)
useThisSub(includes, excludes, topic, k) ==
    IF k > Len(includes) THEN FALSE
    ELSE IF Len(includes[k]) > Len(topic) THEN FALSE
    ELSE IF HasPrefix(topic, includes[k]) THEN ~excludedFrom(excludes, topic, 1)
    ELSE useThisSub(includes, excludes, topic, k + 1)

\* Faulty variant of the loop body: a record is matched whether active or not
MatchesSub_anyState(sub, slashedTopic) ==
    useThisSub(sub.includes, sub.excludes, slashedTopic, 1)

\* Body of the loop over sublist for one subscription record, lines 520-549
MatchesSub(sub, slashedTopic) ==
    /\ sub.active
    /\ useThisSub(sub.includes, sub.excludes, slashedTopic, 1)

----------------------------------------------------------------------------
(* State *)

VARIABLES
    subs,              \* handle -> SubscriptionInfo record
    subscriptions,     \* SubscriptionManager.subscriptions: the ids in the map
    subscriptionList,  \* SubscriptionManager.subscriptionList
    numSubscriptions,  \* SubscriptionManager.numSubscriptions
    stopIdleCheck,     \* messages buffered in SubscriptionManager.stopIdleCheck
    now,               \* the clock
    newPc,             \* per creator: position inside NewSubscription
    newRet,            \* what the last NewSubscription to return has returned
    ret,               \* the last Include/Exclude call and its error
    sweepPc,           \* position of ageOutTask
    idList,            \* ageOutCheck: ids still to delete
    pub,               \* the pipeline goroutine inside Processor.Publish
    fault,             \* run-time panic raised, "none" while running
    sse,               \* per SSE request goroutine: position inside ProcessEventsRequest
    events,            \* events handed to Processor.Publish so far
    written,           \* per SSE request goroutine: the messages written to its client
    mgmt,              \* per management request goroutine: position inside ProcessSubscriptionRequest
    lk,                \* per goroutine followed lock by lock: position and locks held
    mem                \* per record: the slice of its include list and a header handed out

vars == << subs, subscriptions, subscriptionList, numSubscriptions, stopIdleCheck,
           now, newPc, newRet, ret, sweepPc, idList, pub, fault, sse, events, written, mgmt, lk, mem >>

\* A record slot no NewSubscription has filled yet
NoSub == [ alloc |-> FALSE, includes |-> <<>>, excludes |-> <<>>, SubId |-> 0,
           active |-> FALSE, process |-> FALSE, expiration |-> ZeroTime,
           channel |-> <<>>, chanClosed |-> FALSE, IsClosedChan |-> FALSE ]

\* new(SubscriptionInfo) as NewSubscription fills it, lines 239-248
NewSub(newid, t) ==
    [ alloc |-> TRUE, includes |-> <<>>, excludes |-> <<>>, SubId |-> newid,
      active |-> FALSE, process |-> FALSE, expiration |-> t + MaxIdleSubscriptionAge,
      channel |-> <<>>, chanClosed |-> FALSE, IsClosedChan |-> FALSE ]

\* The pipeline goroutine between two events
PubIdle == [ pc |-> "idle", topic |-> <<>>, count |-> 0, sublist |-> <<>>, rv |-> <<>> ]

\* The URL path of a request: whether it starts with the prefix of the endpoint,
\* and what follows the prefix, the text of a subscription id (none for Nil)
\* and the characters after it
NoPath == [ prefixed |-> FALSE, id |-> Nil, tail |-> <<>> ]
IdPath(subid) == [ prefixed |-> TRUE, id |-> subid, tail |-> <<>> ]

\* Paths of the requests the endpoints are to reject: "/inexist", the bare
\* prefix, an id followed by more text, and an id followed by further components
BadPaths ==
    { [ prefixed |-> FALSE, id |-> 1, tail |-> <<>> ],
      [ prefixed |-> TRUE, id |-> Nil, tail |-> <<>> ],
      [ prefixed |-> TRUE, id |-> 1, tail |-> << "b" >> ],
      [ prefixed |-> TRUE, id |-> 1, tail |-> << "/", "b" >> ] }

\* Paths and methods of incoming requests
Paths == { IdPath(h) : h \in Recs } \cup BadPaths
EventMethods == { "GET", "POST" }

\* ProcessEventsRequest, lines 261-268: HasPrefix, TrimPrefix, and the test
\* subid == "" || ContainsRune(subid, '/'); an id holds no slash
PathHasId(path) ==
    /\ path.prefixed
    /\ ~(path.id = Nil /\ path.tail = <<>>)
    /\ "/" \notin Range(path.tail)

\* An SSE request goroutine with no request to serve
SseIdle == [ pc |-> "idle", h |-> Nil, ctx |-> FALSE, msg |-> 0,
             method |-> "", path |-> NoPath ]

\* Methods of the requests on /subscription/<id>
Methods == { "GET", "PUT", "PATCH", "DELETE", "POST" }

\* Bodies of PUT and PATCH requests: the decoded include and exclude lists, or
\* text that json.Decode rejects
Bodies ==
    { [ valid |-> TRUE, include |-> <<>>, exclude |-> <<>> ],
      [ valid |-> TRUE, include |-> << <<"a">> >>, exclude |-> << <<"a", "/", "b">> >> ],
      [ valid |-> TRUE, include |-> << <<"a">>, <<"b">>, <<"c">> >>, exclude |-> << <<"b">> >> ],
      [ valid |-> FALSE, include |-> <<>>, exclude |-> <<>> ] }

\* A management request goroutine with no request to serve. includes and
\* excludes are the lists SubscriptionInfo returned, i counts the calls made in
\* the loop the goroutine is in
MgmtIdle == [ pc |-> "idle", method |-> "", h |-> Nil,
              body |-> [ valid |-> TRUE, include |-> <<>>, exclude |-> <<>> ],
              includes |-> <<>>, excludes |-> <<>>, i |-> 0, someError |-> FALSE, msg |-> "" ]

\* A goroutine outside the manager, holding no lock; held lists the locks it
\* holds in the order it took them, the lock of the manager being SLock and the
\* lock of a record its handle, each with the mode "W" (Lock) or "R" (RLock)
LkIdle == [ pc |-> "idle", h |-> Nil, held |-> <<>>, todo |-> <<>>, at |-> 0, b |-> FALSE ]

\* NewSubscription, line 242: make([]string, 0), and no header handed out; data
\* is the backing array, as long as the capacity, of which the list is the first
\* len entries; got tells whether a header returned by SubscriptionInfo shares
\* that array ("shared"), points to an array the record has left ("own", its
\* contents in gotData), or is not in use ("none")
MemNew == [ data |-> <<>>, len |-> 0, got |-> "none", gotData |-> <<>>, gotLen |-> 0,
            seen |-> <<>> ]

\* Handles of the records created so far
Allocated == { h \in Recs : subs[h].alloc }

\* Init, lines 183-193, and the goroutines before their first call
Init ==
    /\ subs = [ h \in Recs |-> NoSub ]
    /\ subscriptions = {}
    /\ subscriptionList = <<>>
    /\ numSubscriptions = 0
    /\ stopIdleCheck = 0
    /\ now = 1
    /\ newPc = [ c \in Creators |-> "idle" ]
    /\ newRet = [ err |-> "none", id |-> 0 ]
    /\ ret = [ op |-> "none", h |-> Nil, p |-> <<>>, err |-> "none" ]
    /\ sweepPc = "wait"
    /\ idList = <<>>
    /\ pub = PubIdle
    /\ fault = "none"
    /\ sse = [ k \in Handlers |-> SseIdle ]
    /\ events = 0
    /\ written = [ k \in Handlers |-> <<>> ]
    /\ mgmt = [ c \in Clients |-> MgmtIdle ]
    /\ lk = [ t \in LkThreads |-> LkIdle ]
    /\ mem = [ h \in Recs |-> MemNew ]

----------------------------------------------------------------------------
(* NewSubscription, DeleteSubscription, Close *)

\* NewSubscription, lines 231-234: the limit test on the atomically loaded count
NewSubCheck(c) ==
    /\ newPc[c] = "idle"
    /\ Cardinality(Allocated) + Cardinality({ d \in Creators : newPc[d] = "checked" }) < MaxRecs
    /\ IF numSubscriptions >= SubscriptionLimit
       THEN /\ newRet' = [ err |-> "subscription limit reached", id |-> 0 ]
            /\ UNCHANGED newPc
       ELSE /\ newPc' = [newPc EXCEPT ![c] = "checked"]
            /\ UNCHANGED newRet
    /\ UNCHANGED << subs, subscriptions, subscriptionList, numSubscriptions, stopIdleCheck,
                    now, ret, sweepPc, idList, pub, fault,
                    sse, events, written, mgmt, lk, mem >>

\* NewSubscription, lines 235-238: token.GenerateToken fails
NewSubTokenErr(c) ==
    /\ newPc[c] = "checked"
    /\ newPc' = [newPc EXCEPT ![c] = "idle"]
    /\ newRet' = [ err |-> "token", id |-> 0 ]
    /\ UNCHANGED << subs, subscriptions, subscriptionList, numSubscriptions, stopIdleCheck,
                    now, ret, sweepPc, idList, pub, fault,
                    sse, events, written, mgmt, lk, mem >>

\* NewSubscription, lines 239-254: the record is filled and inserted under the lock
NewSubInsert(c) ==
    /\ newPc[c] = "checked"
    /\ LET newid == Cardinality(Allocated) + 1 IN
        /\ newid \in Recs
        /\ subs' = [subs EXCEPT ![newid] = NewSub(newid, now)]
        /\ subscriptions' = subscriptions \cup {newid}
        /\ subscriptionList' = Append(subscriptionList, newid)
        /\ numSubscriptions' = numSubscriptions + 1
        /\ newRet' = [ err |-> "nil", id |-> newid ]
    /\ newPc' = [newPc EXCEPT ![c] = "idle"]
    /\ UNCHANGED << stopIdleCheck, now, ret, sweepPc, idList, pub, fault,
                    sse, events, written, mgmt, lk, mem >>

\* The record ended with its id left in place
Ended_idKept(sub) ==
    [sub EXCEPT !.active = FALSE, !.process = FALSE,
                !.chanClosed = TRUE, !.IsClosedChan = TRUE]

\* The record of a subscription after DeleteSubscription or Close has ended it
Ended(sub) ==
    [sub EXCEPT !.active = FALSE, !.process = FALSE, !.SubId = 0,
                !.chanClosed = TRUE, !.IsClosedChan = TRUE]

\* DeleteSubscription that leaves the id in subscriptionList
DoDelete_listKept(subid) ==
    IF subid \notin subscriptions
    THEN UNCHANGED << subs, subscriptions, subscriptionList, numSubscriptions, fault >>
    ELSE /\ subs' = [subs EXCEPT ![subid] = Ended(subs[subid])]
         /\ subscriptions' = subscriptions \ {subid}
         /\ numSubscriptions' = Cardinality(subscriptions \ {subid})
         /\ UNCHANGED << subscriptionList, fault >>

\* DeleteSubscription without the lookup of lines 267-270: the channel of an id
\* that is not registered is closed again
DoDelete_noLookup(subid) ==
    IF subid \notin subscriptions
    THEN /\ fault' = "close of closed channel"
         /\ UNCHANGED << subs, subscriptions, subscriptionList, numSubscriptions >>
    ELSE /\ subs' = [subs EXCEPT ![subid] = Ended(subs[subid])]
         /\ subscriptions' = subscriptions \ {subid}
         /\ subscriptionList' = SelectSeq(subscriptionList, LAMBDA h : h # subid)
         /\ numSubscriptions' = Cardinality(subscriptions \ {subid})
         /\ UNCHANGED fault

\* DeleteSubscription, lines 264-287, on the manager's state
DoDelete(subid) ==
    IF subid \notin subscriptions
    THEN UNCHANGED << subs, subscriptions, subscriptionList, numSubscriptions, fault >>
    ELSE IF subs[subid].chanClosed
    THEN /\ fault' = "close of closed channel"
         /\ UNCHANGED << subs, subscriptions, subscriptionList, numSubscriptions >>
    ELSE /\ subs' = [subs EXCEPT ![subid] = Ended(subs[subid])]
         /\ subscriptions' = subscriptions \ {subid}
         /\ subscriptionList' = SelectSeq(subscriptionList, LAMBDA h : h # subid)
         /\ numSubscriptions' = Cardinality(subscriptions \ {subid})
         /\ UNCHANGED fault

\* DeleteSubscription called by a client of the manager; the call is recorded
DeleteSubscription(subid) ==
    /\ DoDelete(subid)
    /\ ret' = [ op |-> "Delete", h |-> subid, p |-> <<>>, err |-> "none" ]
    /\ UNCHANGED << stopIdleCheck, now, newPc, newRet, sweepPc, idList, pub,
                    sse, events, written, mgmt, lk, mem >>

\* Close that ends the listed subscriptions and goes on with the list it had
Close_listKept ==
    /\ stopIdleCheck < 2
    /\ stopIdleCheck' = stopIdleCheck + 1
    /\ IF \E k \in 1..Len(subscriptionList) : subs[subscriptionList[k]].chanClosed
       THEN /\ fault' = "close of closed channel"
            /\ UNCHANGED << subs, subscriptions, subscriptionList, numSubscriptions >>
       ELSE /\ subs' = [ h \in Recs |->
                           IF h \in Range(subscriptionList) THEN Ended(subs[h]) ELSE subs[h] ]
            /\ subscriptions' = {}
            /\ numSubscriptions' = 0
            /\ UNCHANGED << subscriptionList, fault >>
    /\ UNCHANGED << now, newPc, newRet, ret, sweepPc, idList, pub,
                    sse, events, written, mgmt, lk, mem >>

\* Close, lines 200-216; the stop message of line 201 is read by ageOutTask alone,
\* so sending it in the same step as the locked region hides no interleaving
Close ==
    /\ stopIdleCheck < 2
    /\ stopIdleCheck' = stopIdleCheck + 1
    /\ IF \E k \in 1..Len(subscriptionList) : subs[subscriptionList[k]].chanClosed
       THEN /\ fault' = "close of closed channel"
            /\ UNCHANGED << subs, subscriptions, subscriptionList, numSubscriptions >>
       ELSE /\ subs' = [ h \in Recs |->
                           IF h \in Range(subscriptionList) THEN Ended(subs[h]) ELSE subs[h] ]
            /\ subscriptionList' = <<>>
            /\ subscriptions' = {}
            /\ numSubscriptions' = 0
            /\ UNCHANGED fault
    /\ UNCHANGED << now, newPc, newRet, ret, sweepPc, idList, pub,
                    sse, events, written, mgmt, lk, mem >>

----------------------------------------------------------------------------
(* Include, Exclude, SetActive, SetProcess on a handle *)

\* Include, lines 378-413
Include(h, topicPrefix) ==
    /\ IF h = Nil
       THEN /\ ret' = [ op |-> "Include", h |-> h, p |-> topicPrefix,
                        err |-> "subscription not found" ]
            /\ UNCHANGED subs
       ELSE LET r == IncludeLists(subs[h].includes, subs[h].excludes, topicPrefix) IN
            /\ subs' = [subs EXCEPT ![h].includes = r.includes, ![h].excludes = r.excludes]
            /\ ret' = [ op |-> "Include", h |-> h, p |-> topicPrefix,
                        err |-> r.err ]
    /\ UNCHANGED << subscriptions, subscriptionList, numSubscriptions, stopIdleCheck,
                    now, newPc, newRet, sweepPc, idList, pub, fault,
                    sse, events, written, mgmt, lk, mem >>

\* Exclude, lines 425-458
Exclude(h, topicPrefix) ==
    /\ IF h = Nil
       THEN /\ ret' = [ op |-> "Exclude", h |-> h, p |-> topicPrefix,
                        err |-> "subscription not found" ]
            /\ UNCHANGED subs
       ELSE LET r == ExcludeLists(subs[h].includes, subs[h].excludes, topicPrefix) IN
            /\ subs' = [subs EXCEPT ![h].includes = r.includes, ![h].excludes = r.excludes]
            /\ ret' = [ op |-> "Exclude", h |-> h, p |-> topicPrefix,
                        err |-> r.err ]
    /\ UNCHANGED << subscriptions, subscriptionList, numSubscriptions, stopIdleCheck,
                    now, newPc, newRet, sweepPc, idList, pub, fault,
                    sse, events, written, mgmt, lk, mem >>

\* SetActive, lines 468-480
SetActive(h, isActive) ==
    /\ subs' = [subs EXCEPT ![h].active = isActive,
                            ![h].expiration = IF isActive THEN ZeroTime
                                              ELSE now + MaxIdleSubscriptionAge]
    /\ UNCHANGED << subscriptions, subscriptionList, numSubscriptions, stopIdleCheck,
                    now, newPc, newRet, ret, sweepPc, idList, pub, fault,
                    sse, events, written, mgmt, lk, mem >>

\* SetProcess storing the flag in every record
SetProcess_all(h, isProcess) ==
    /\ subs' = [ g \in Recs |->
                  [subs[g] EXCEPT !.process = isProcess,
                                  !.expiration = IF isProcess THEN ZeroTime
                                                 ELSE now + MaxIdleSubscriptionAge] ]
    /\ UNCHANGED << subscriptions, subscriptionList, numSubscriptions, stopIdleCheck,
                    now, newPc, newRet, ret, sweepPc, idList, pub, fault,
                    sse, events, written, mgmt, lk, mem >>

\* SetProcess, lines 488-500
SetProcess(h, isProcess) ==
    /\ subs' = [subs EXCEPT ![h].process = isProcess,
                            ![h].expiration = IF isProcess THEN ZeroTime
                                              ELSE now + MaxIdleSubscriptionAge]
    /\ UNCHANGED << subscriptions, subscriptionList, numSubscriptions, stopIdleCheck,
                    now, newPc, newRet, ret, sweepPc, idList, pub, fault,
                    sse, events, written, mgmt, lk, mem >>

----------------------------------------------------------------------------
(* The clock and the age-out task *)

\* Time passes
Tick ==
    /\ now < MaxTime
    /\ now' = now + 1
    /\ UNCHANGED << subs, subscriptions, subscriptionList, numSubscriptions, stopIdleCheck,
                    newPc, newRet, ret, sweepPc, idList, pub, fault,
                    sse, events, written, mgmt, lk, mem >>

\* getAgeOutList, line 138: the test on one subscription
AgedOut(sub, checkTime) ==
    /\ ~sub.active
    /\ ~sub.process
    /\ sub.expiration # ZeroTime
    /\ checkTime > sub.expiration

\* The orders in which a range over the map can yield the ids of a set
Orders(S) ==
    { o \in [ 1..Cardinality(S) -> S ] : \A i, j \in 1..Cardinality(S) : i # j => o[i] # o[j] }

\* getAgeOutList testing against the time of the tick before
AgeOutCollect_late ==
    /\ sweepPc = "wait"
    /\ LET aged == { subid \in subscriptions : AgedOut(subs[subid], now - 1) } IN
        /\ idList' \in Orders(aged)
        /\ sweepPc' = IF aged = {} THEN "wait" ELSE "delete"
    /\ UNCHANGED << subs, subscriptions, subscriptionList, numSubscriptions, stopIdleCheck,
                    now, newPc, newRet, ret, pub, fault, sse, events, written, mgmt, lk, mem >>

\* ageOutTask on a tick: getAgeOutList, lines 131-144, under the read lock
AgeOutCollect ==
    /\ sweepPc = "wait"
    /\ LET aged == { subid \in subscriptions : AgedOut(subs[subid], now) } IN
        /\ idList' \in Orders(aged)
        /\ sweepPc' = IF aged = {} THEN "wait" ELSE "delete"
    /\ UNCHANGED << subs, subscriptions, subscriptionList, numSubscriptions, stopIdleCheck,
                    now, newPc, newRet, ret, pub, fault,
                    sse, events, written, mgmt, lk, mem >>

\* ageOutCheck, lines 150-152: one DeleteSubscription of the collected list
AgeOutDelete ==
    /\ sweepPc = "delete"
    /\ DoDelete(Head(idList))
    /\ idList' = Tail(idList)
    /\ sweepPc' = IF Tail(idList) = <<>> THEN "wait" ELSE "delete"
    /\ UNCHANGED << stopIdleCheck, now, newPc, newRet, ret, pub,
                    sse, events, written, mgmt, lk, mem >>

\* ageOutTask, lines 162-164: the stop message is received
AgeOutStop ==
    /\ sweepPc = "wait"
    /\ stopIdleCheck > 0
    /\ stopIdleCheck' = stopIdleCheck - 1
    /\ sweepPc' = "stopped"
    /\ UNCHANGED << subs, subscriptions, subscriptionList, numSubscriptions,
                    now, newPc, newRet, ret, idList, pub, fault,
                    sse, events, written, mgmt, lk, mem >>

----------------------------------------------------------------------------
(* The event pipeline: Processor.Publish and SubscribedChannels *)

\* SubscribedChannels, lines 510-552, run with no other goroutine in between
SubscribedChannels(topic) ==
    IF numSubscriptions = 0 THEN <<>>
    ELSE SelectSeq(subscriptionList, LAMBDA h : MatchesSub(subs[h], endWithSlash(topic)))

\* Publish, line 53, and SubscribedChannels, line 511: the count is loaded
PubStart(topic) ==
    /\ pub.pc = "idle"
    /\ events < MaxEvents
    /\ events' = events + 1
    /\ pub' = [ pc |-> "count", topic |-> topic, count |-> numSubscriptions,
                sublist |-> <<>>, rv |-> <<>> ]
    /\ UNCHANGED << subs, subscriptions, subscriptionList, numSubscriptions, stopIdleCheck,
                    now, newPc, newRet, ret, sweepPc, idList, fault,
                    sse, written, mgmt, lk, mem >>

\* SubscribedChannels, lines 513-518: nil on a zero count, else AllSubscriptions
PubSnapshot ==
    /\ pub.pc = "count"
    /\ pub' = IF pub.count = 0 THEN PubIdle
              ELSE [pub EXCEPT !.pc = "match", !.sublist = subscriptionList]
    /\ UNCHANGED << subs, subscriptions, subscriptionList, numSubscriptions, stopIdleCheck,
                    now, newPc, newRet, ret, sweepPc, idList, fault,
                    sse, events, written, mgmt, lk, mem >>

\* SubscribedChannels, lines 519-550: one subscription of sublist under its read lock
PubMatchOne ==
    /\ pub.pc = "match"
    /\ pub.sublist # <<>>
    /\ LET h == Head(pub.sublist) IN
       pub' = [pub EXCEPT !.sublist = Tail(pub.sublist),
                          !.rv = IF MatchesSub(subs[h], endWithSlash(pub.topic))
                                 THEN Append(pub.rv, h) ELSE pub.rv]
    /\ UNCHANGED << subs, subscriptions, subscriptionList, numSubscriptions, stopIdleCheck,
                    now, newPc, newRet, ret, sweepPc, idList, fault,
                    sse, events, written, mgmt, lk, mem >>

\* SubscribedChannels returns, line 551; Publish, lines 57-59
PubReturn ==
    /\ pub.pc = "match"
    /\ pub.sublist = <<>>
    /\ pub' = IF pub.rv = <<>> THEN PubIdle ELSE [pub EXCEPT !.pc = "send"]
    /\ UNCHANGED << subs, subscriptions, subscriptionList, numSubscriptions, stopIdleCheck,
                    now, newPc, newRet, ret, sweepPc, idList, fault,
                    sse, events, written, mgmt, lk, mem >>

\* A send that makes room in a full channel by dropping its oldest message
PubSend_dropOldest ==
    /\ pub.pc = "send"
    /\ LET h == Head(pub.rv)
           kept == IF Len(subs[h].channel) < ChanBufferSize THEN subs[h].channel
                   ELSE Tail(subs[h].channel)
       IN  IF subs[h].chanClosed
           THEN /\ fault' = "send on closed channel"
                /\ UNCHANGED << subs, pub >>
           ELSE /\ subs' = [subs EXCEPT ![h].channel = Append(kept, events)]
                /\ pub' = IF Tail(pub.rv) = <<>> THEN PubIdle
                           ELSE [pub EXCEPT !.rv = Tail(pub.rv)]
                /\ UNCHANGED fault
    /\ UNCHANGED << subscriptions, subscriptionList, numSubscriptions, stopIdleCheck,
                    now, newPc, newRet, ret, sweepPc, idList, sse, events, written, mgmt, lk, mem >>

\* Publish, lines 95-97: ch <- msg on the next channel of chanlist; the message
\* built from the event is identified by the number of the event
PubSend ==
    /\ pub.pc = "send"
    /\ LET h == Head(pub.rv) IN
       IF subs[h].chanClosed
       THEN /\ fault' = "send on closed channel"
            /\ UNCHANGED << subs, pub >>
       ELSE /\ Len(subs[h].channel) < ChanBufferSize
            /\ subs' = [subs EXCEPT ![h].channel = Append(subs[h].channel, events)]
            /\ pub' = IF Tail(pub.rv) = <<>> THEN PubIdle ELSE [pub EXCEPT !.rv = Tail(pub.rv)]
            /\ UNCHANGED fault
    /\ UNCHANGED << subscriptions, subscriptionList, numSubscriptions, stopIdleCheck,
                    now, newPc, newRet, ret, sweepPc, idList,
                    sse, events, written, mgmt, lk, mem >>

\* ProcessEventsRequest, line 311: a message is received from the channel
Receive(h) ==
    /\ subs[h].channel # <<>>
    /\ subs' = [subs EXCEPT ![h].channel = Tail(subs[h].channel)]
    /\ UNCHANGED << subscriptions, subscriptionList, numSubscriptions, stopIdleCheck,
                    now, newPc, newRet, ret, sweepPc, idList, pub, fault,
                    sse, events, written, mgmt, lk, mem >>

----------------------------------------------------------------------------
(* The SSE endpoint: ProcessEventsRequest *)

\* What no step of an SSE request touches
SseFrame ==
    UNCHANGED << subscriptions, subscriptionList, numSubscriptions, stopIdleCheck,
                 now, newPc, newRet, ret, sweepPc, idList, pub, fault, events, mgmt, lk, mem >>

\* addSubscription, line 72: the ids in the index of the web package are those
\* of every record NewSubscription has made, since POST registers each id it is
\* given and no request removes an entry
g_subscriptions == Allocated

\* g_subscriptions[subid], lines 277 and 187: ids are registered by addSubscription
\* and never removed
IndexHit(path) == path.tail = <<>> /\ path.id \in Allocated

\* ProcessEventsRequest, lines 257-283: the request is answered 405 for a method
\* other than GET, else 404 for a path with no single id or an id that is not
\* in g_subscriptions
SseReject(k, method, path) ==
    /\ sse[k].pc = "idle"
    /\ method # "GET" \/ ~PathHasId(path) \/ ~IndexHit(path)
    /\ sse' = [sse EXCEPT ![k] = [ pc |-> IF method # "GET" THEN "405" ELSE "404",
                                    h |-> Nil, ctx |-> FALSE, msg |-> 0,
                                    method |-> method, path |-> path ]]
    /\ written' = [written EXCEPT ![k] = <<>>]
    /\ UNCHANGED subs
    /\ SseFrame

\* The request marking its subscription active as soon as it is found
SseLookup_marked(k, subid) ==
    /\ sse[k].pc = "idle"
    /\ sse' = [sse EXCEPT ![k] = [ pc |-> "check1", h |-> subid, ctx |-> FALSE, msg |-> 0,
                                    method |-> "GET", path |-> IdPath(subid) ]]
    /\ written' = [written EXCEPT ![k] = <<>>]
    /\ subs' = [subs EXCEPT ![subid].active = TRUE, ![subid].expiration = ZeroTime]
    /\ SseFrame

\* ProcessEventsRequest, lines 257-283: a GET with the id of the request found
\* in g_subscriptions
SseLookup(k, subid) ==
    /\ sse[k].pc = "idle"
    /\ sse' = [sse EXCEPT ![k] = [ pc |-> "check1", h |-> subid, ctx |-> FALSE, msg |-> 0,
                                    method |-> "GET", path |-> IdPath(subid) ]]
    /\ written' = [written EXCEPT ![k] = <<>>]
    /\ UNCHANGED subs
    /\ SseFrame

\* ProcessEventsRequest, lines 285-289: IsSubscriptionDeleted, 404 if it is
SseCheckDeleted(k) ==
    /\ sse[k].pc = "check1"
    /\ sse' = [sse EXCEPT ![k].pc = IF subs[sse[k].h].SubId = 0 THEN "404" ELSE "check2"]
    /\ UNCHANGED << subs, written >>
    /\ SseFrame

\* ProcessEventsRequest, lines 290-299: IsChannelClosed, 404 if it is, else
\* ReceiveChannel
SseCheckClosed(k) ==
    /\ sse[k].pc = "check2"
    /\ sse' = [sse EXCEPT ![k].pc = IF subs[sse[k].h].IsClosedChan THEN "404" ELSE "activate"]
    /\ UNCHANGED << subs, written >>
    /\ SseFrame

\* ProcessEventsRequest returns after an error response, with nothing deferred
SseRespond(k) ==
    /\ sse[k].pc \in { "404", "405" }
    /\ sse' = [sse EXCEPT ![k] = SseIdle]
    /\ UNCHANGED << subs, written >>
    /\ SseFrame

\* ProcessEventsRequest, lines 300-306: headers are flushed and SetActive(subInfo, true)
SseActivate(k) ==
    /\ sse[k].pc = "activate"
    /\ subs' = [subs EXCEPT ![sse[k].h].active = TRUE, ![sse[k].h].expiration = ZeroTime]
    /\ sse' = [sse EXCEPT ![k].pc = "select"]
    /\ UNCHANGED written
    /\ SseFrame

\* ProcessEventsRequest, lines 310-311: select receives a message
SseReceive(k) ==
    /\ sse[k].pc = "select"
    /\ subs[sse[k].h].channel # <<>>
    /\ sse' = [sse EXCEPT ![k].pc = "write", ![k].msg = Head(subs[sse[k].h].channel)]
    /\ subs' = [subs EXCEPT ![sse[k].h].channel = Tail(subs[sse[k].h].channel)]
    /\ UNCHANGED written
    /\ SseFrame

\* The select that never sees the channel closed: the goroutine stays in the loop
SseClosed_unseen(k) ==
    /\ sse[k].pc = "select"
    /\ subs[sse[k].h].channel = <<>>
    /\ subs[sse[k].h].chanClosed
    /\ UNCHANGED vars

\* ProcessEventsRequest, lines 311-314: select receives from the closed, drained channel
SseClosed(k) ==
    /\ sse[k].pc = "select"
    /\ subs[sse[k].h].channel = <<>>
    /\ subs[sse[k].h].chanClosed
    /\ sse' = [sse EXCEPT ![k].pc = "exit"]
    /\ UNCHANGED << subs, written >>
    /\ SseFrame

\* ProcessEventsRequest, lines 322-323: select takes the cancelled request context
SseCtxDone(k) ==
    /\ sse[k].pc = "select"
    /\ sse[k].ctx
    /\ sse' = [sse EXCEPT ![k].pc = "exit"]
    /\ UNCHANGED << subs, written >>
    /\ SseFrame

\* The frame of the message written and flushed twice
SseWrite_twice(k) ==
    /\ sse[k].pc = "write"
    /\ written' = [written EXCEPT ![k] = written[k] \o << sse[k].msg, sse[k].msg >>]
    /\ sse' = [sse EXCEPT ![k].pc = "select", ![k].msg = 0]
    /\ UNCHANGED subs
    /\ SseFrame

\* ProcessEventsRequest, lines 315-320: the frame of the message is written and
\* flushed; a write after the client has gone may fail, and its error is dropped
SseWrite(k) ==
    /\ sse[k].pc = "write"
    /\ \E sent \in IF sse[k].ctx THEN BOOLEAN ELSE { TRUE } :
          written' = IF sent
                     THEN [written EXCEPT ![k] = Append(written[k], sse[k].msg)]
                     ELSE written
    /\ sse' = [sse EXCEPT ![k].pc = "select", ![k].msg = 0]
    /\ UNCHANGED subs
    /\ SseFrame

\* The return without the deferred call: the subscription is left active
SseExit_stillActive(k) ==
    /\ sse[k].pc = "exit"
    /\ sse' = [sse EXCEPT ![k] = SseIdle]
    /\ UNCHANGED << subs, written >>
    /\ SseFrame

\* ProcessEventsRequest, line 307: the deferred SetActive(subInfo, false) as it returns
SseExit(k) ==
    /\ sse[k].pc = "exit"
    /\ subs' = [subs EXCEPT ![sse[k].h].active = FALSE,
                            ![sse[k].h].expiration = now + MaxIdleSubscriptionAge]
    /\ sse' = [sse EXCEPT ![k] = SseIdle]
    /\ UNCHANGED written
    /\ SseFrame

\* The client of the request goes away: the request context is cancelled
ClientCancel(k) ==
    /\ sse[k].pc # "idle"
    /\ ~sse[k].ctx
    /\ sse' = [sse EXCEPT ![k].ctx = TRUE]
    /\ UNCHANGED << subs, written >>
    /\ SseFrame

\* Any step of the SSE request goroutine k once its request is accepted
SseStep(k) ==
    \/ SseCheckDeleted(k)
    \/ SseCheckClosed(k)
    \/ SseRespond(k)
    \/ SseActivate(k)
    \/ SseReceive(k)
    \/ SseClosed(k)
    \/ SseCtxDone(k)
    \/ SseWrite(k)
    \/ SseExit(k)

----------------------------------------------------------------------------
(* The management endpoint: ProcessSubscriptionRequest on /subscription/<id> *)

\* What no step of a management request touches
MgmtFrame ==
    UNCHANGED << stopIdleCheck, now, newPc, newRet, ret, sweepPc, idList, pub,
                 sse, events, written, lk, mem >>

\* What only DeleteSubscription touches
MgmtRegistry == UNCHANGED << subscriptions, subscriptionList, numSubscriptions, fault >>

\* The loops of putSubscription and patchSubscription, lines 103-157: from a
\* loop that has made all its calls the goroutine goes on to the next loop that
\* has one to make, through the 500 of line 118 and the 400 of line 138 (its
\* message is the text of the decoder's error), to the 200 of line 157
RECURSIVE Advance(_)
Advance(m) ==
    IF m.pc = "putInclude"
    THEN IF m.i < Len(m.excludes) THEN m
         ELSE Advance([m EXCEPT !.pc = "putExclude", !.i = 0])
    ELSE IF m.pc = "putExclude"
    THEN IF m.i < Len(m.includes) THEN m
         ELSE IF m.someError
         THEN [m EXCEPT !.pc = "500", !.msg = "Error deleting existing subscription list items"]
         ELSE Advance([m EXCEPT !.pc = "decode", !.i = 0])
    ELSE IF m.pc = "decode"
    THEN IF ~m.body.valid THEN [m EXCEPT !.pc = "400", !.msg = "invalid body"]
         ELSE Advance([m EXCEPT !.pc = "patchInclude", !.i = 0])
    ELSE IF m.pc = "patchInclude"
    THEN IF m.i < Len(m.body.include) THEN m
         ELSE Advance([m EXCEPT !.pc = "patchExclude", !.i = 0])
    ELSE IF m.pc = "patchExclude"
    THEN IF m.i < Len(m.body.exclude) THEN m
         ELSE [m EXCEPT !.pc = "200", !.msg = "Subscription updated."]
    ELSE m

\* ProcessSubscriptionRequest, lines 185-197: a request with an id arrives and
\* the id is looked up in g_subscriptions, 404 if it is not there
MgmtRequest(c, method, subid, body) ==
    /\ mgmt[c].pc = "idle"
    /\ mgmt' = [mgmt EXCEPT ![c] =
                  [ MgmtIdle EXCEPT !.pc = IF subid \in Allocated THEN "process" ELSE "404",
                                    !.method = method, !.h = subid, !.body = body,
                                    !.msg = IF subid \in Allocated THEN ""
                                            ELSE "Subscription not found" ]]
    /\ UNCHANGED subs
    /\ MgmtRegistry /\ MgmtFrame

\* ProcessSubscriptionRequest, line 198: SetProcess(subInfo, true)
MgmtSetProcess(c) ==
    /\ mgmt[c].pc = "process"
    /\ subs' = [subs EXCEPT ![mgmt[c].h].process = TRUE, ![mgmt[c].h].expiration = ZeroTime]
    /\ mgmt' = [mgmt EXCEPT ![c].pc = "check1"]
    /\ MgmtRegistry /\ MgmtFrame

\* The request going on to its method without the deleted test
MgmtCheckDeleted_skipped(c) ==
    /\ mgmt[c].pc = "check1"
    /\ mgmt' = [mgmt EXCEPT ![c].pc = "info"]
    /\ UNCHANGED subs
    /\ MgmtRegistry /\ MgmtFrame

\* ProcessSubscriptionRequest, lines 199-203: IsSubscriptionDeleted, 404 if it is
MgmtCheckDeleted(c) ==
    /\ mgmt[c].pc = "check1"
    /\ mgmt' = [mgmt EXCEPT ![c].pc = IF subs[mgmt[c].h].SubId = 0 THEN "404" ELSE "check2"]
    /\ UNCHANGED subs
    /\ MgmtRegistry /\ MgmtFrame

\* ProcessSubscriptionRequest, lines 204-208: IsChannelClosed, 404 if it is
MgmtCheckClosed(c) ==
    /\ mgmt[c].pc = "check2"
    /\ mgmt' = [mgmt EXCEPT ![c].pc = IF subs[mgmt[c].h].IsClosedChan THEN "404" ELSE "info"]
    /\ UNCHANGED subs
    /\ MgmtRegistry /\ MgmtFrame

\* ProcessSubscriptionRequest, lines 209-234: SubscriptionInfo returns the lists,
\* and the switch on the method: getSubscription answers with them, the default
\* case answers 405, the others go to their calls on the manager
MgmtInfo(c) ==
    /\ mgmt[c].pc = "info"
    /\ LET m == [mgmt[c] EXCEPT !.includes = subs[mgmt[c].h].includes,
                                !.excludes = subs[mgmt[c].h].excludes] IN
        mgmt' = [mgmt EXCEPT ![c] =
                    IF m.method = "GET" THEN [m EXCEPT !.pc = "200"]
                    ELSE IF m.method = "DELETE" THEN [m EXCEPT !.pc = "delete"]
                    ELSE IF m.method = "PUT" THEN Advance([m EXCEPT !.pc = "putInclude"])
                    ELSE IF m.method = "PATCH" THEN Advance([m EXCEPT !.pc = "decode"])
                    ELSE [m EXCEPT !.pc = "405", !.msg = "Method not allowed"]]
    /\ UNCHANGED subs
    /\ MgmtRegistry /\ MgmtFrame

\* deleteSubscription, lines 77-83: DeleteSubscription(subid), then 200
MgmtDelete(c) ==
    /\ mgmt[c].pc = "delete"
    /\ DoDelete(mgmt[c].h)
    /\ mgmt' = [mgmt EXCEPT ![c].pc = "200", ![c].msg = "Subscription deleted"]
    /\ MgmtFrame

\* putSubscription, lines 103-109: Include of one of the excludes SubscriptionInfo returned
MgmtPutInclude(c) ==
    /\ mgmt[c].pc = "putInclude"
    /\ LET m == mgmt[c]
           r == IncludeLists(subs[m.h].includes, subs[m.h].excludes, m.excludes[m.i + 1]) IN
        /\ subs' = [subs EXCEPT ![m.h].includes = r.includes, ![m.h].excludes = r.excludes]
        /\ mgmt' = [mgmt EXCEPT ![c] =
                      Advance([m EXCEPT !.i = m.i + 1,
                                        !.someError = m.someError \/ r.err # "ok"])]
    /\ MgmtRegistry /\ MgmtFrame

\* putSubscription going through the old includes without removing them
MgmtPutExclude_kept(c) ==
    /\ mgmt[c].pc = "putExclude"
    /\ mgmt' = [mgmt EXCEPT ![c] = Advance([mgmt[c] EXCEPT !.i = mgmt[c].i + 1])]
    /\ UNCHANGED subs
    /\ MgmtRegistry /\ MgmtFrame

\* putSubscription, lines 110-116: Exclude of one of the includes SubscriptionInfo returned
MgmtPutExclude(c) ==
    /\ mgmt[c].pc = "putExclude"
    /\ LET m == mgmt[c]
           r == ExcludeLists(subs[m.h].includes, subs[m.h].excludes, m.includes[m.i + 1]) IN
        /\ subs' = [subs EXCEPT ![m.h].includes = r.includes, ![m.h].excludes = r.excludes]
        /\ mgmt' = [mgmt EXCEPT ![c] =
                      Advance([m EXCEPT !.i = m.i + 1,
                                        !.someError = m.someError \/ r.err # "ok"])]
    /\ MgmtRegistry /\ MgmtFrame

\* patchSubscription going on to the next entry of the body after a failed Include
MgmtPatchInclude_goesOn(c) ==
    /\ mgmt[c].pc = "patchInclude"
    /\ LET m == mgmt[c]
           r == IncludeLists(subs[m.h].includes, subs[m.h].excludes, m.body.include[m.i + 1]) IN
        /\ subs' = [subs EXCEPT ![m.h].includes = r.includes, ![m.h].excludes = r.excludes]
        /\ mgmt' = [mgmt EXCEPT ![c] =
                      LET n == Advance([m EXCEPT !.i = m.i + 1,
                                                 !.someError = m.someError \/ r.err # "ok"]) IN
                      IF n.pc = "200" /\ n.someError
                      THEN [n EXCEPT !.pc = "503", !.msg = "include limit reached"]
                      ELSE n]
    /\ MgmtRegistry /\ MgmtFrame

\* patchSubscription, lines 141-148: Include of one entry of the body, 503 with
\* the text of the error if it fails
MgmtPatchInclude(c) ==
    /\ mgmt[c].pc = "patchInclude"
    /\ LET m == mgmt[c]
           r == IncludeLists(subs[m.h].includes, subs[m.h].excludes, m.body.include[m.i + 1]) IN
        /\ subs' = [subs EXCEPT ![m.h].includes = r.includes, ![m.h].excludes = r.excludes]
        /\ mgmt' = [mgmt EXCEPT ![c] =
                      IF r.err # "ok" THEN [m EXCEPT !.pc = "503", !.msg = r.err]
                      ELSE Advance([m EXCEPT !.i = m.i + 1])]
    /\ MgmtRegistry /\ MgmtFrame

\* patchSubscription, lines 149-156: Exclude of one entry of the body, 503 with
\* the text of the error if it fails
MgmtPatchExclude(c) ==
    /\ mgmt[c].pc = "patchExclude"
    /\ LET m == mgmt[c]
           r == ExcludeLists(subs[m.h].includes, subs[m.h].excludes, m.body.exclude[m.i + 1]) IN
        /\ subs' = [subs EXCEPT ![m.h].includes = r.includes, ![m.h].excludes = r.excludes]
        /\ mgmt' = [mgmt EXCEPT ![c] =
                      IF r.err # "ok" THEN [m EXCEPT !.pc = "503", !.msg = r.err]
                      ELSE Advance([m EXCEPT !.i = m.i + 1])]
    /\ MgmtRegistry /\ MgmtFrame

\* The response codes of the endpoint
Responses == { "200", "400", "404", "405", "500", "503" }

\* ProcessSubscriptionRequest, lines 214-233: after the response of a GET, PUT,
\* PATCH or other method that got past the checks SetProcess(subInfo, false) is
\* called; the 404 returns and the DELETE case return without it
MgmtFinish(c) ==
    /\ mgmt[c].pc \in Responses
    /\ subs' = IF mgmt[c].pc = "404" \/ mgmt[c].method = "DELETE" THEN subs
               ELSE [subs EXCEPT ![mgmt[c].h].process = FALSE,
                                 ![mgmt[c].h].expiration = now + MaxIdleSubscriptionAge]
    /\ mgmt' = [mgmt EXCEPT ![c] = MgmtIdle]
    /\ MgmtRegistry /\ MgmtFrame

----------------------------------------------------------------------------
(* The locks: s.lock of the manager and sub.lock of every record *)

\* Goroutine t holds lock l in some mode; in mode W
Holds(t, l) == \E i \in 1..Len(lk[t].held) : lk[t].held[i].l = l
HoldsW(t, l) == \E i \in 1..Len(lk[t].held) : lk[t].held[i] = [ l |-> l, m |-> "W" ]

\* The lock whose Lock() is the next statement of goroutine t
WantsW(t) ==
    IF lk[t].pc \in { "del.s", "close.s", "all.s" } THEN { SLock }
    ELSE IF lk[t].pc \in { "del.sub", "act.sub" } THEN { lk[t].h }
    ELSE IF lk[t].pc = "close.loop" /\ lk[t].todo # <<>> THEN { Head(lk[t].todo) }
    ELSE {}

\* The lock whose RLock() is the next statement of goroutine t
WantsR(t) ==
    IF lk[t].pc = "age.s" THEN { SLock }
    ELSE IF lk[t].pc \in { "age.loop", "match.loop" } /\ lk[t].todo # <<>>
    THEN { Head(lk[t].todo) }
    ELSE {}

\* sync.RWMutex: Lock returns when nobody holds the lock; RLock returns when no
\* writer holds it and no Lock call is blocked on it by earlier readers
CanLock(l) == \A u \in LkThreads : ~Holds(u, l)
CanRLock(l) ==
    /\ \A u \in LkThreads : ~HoldsW(u, l)
    /\ ~ ( /\ \E u \in LkThreads : l \in WantsW(u)
           /\ \E v \in LkThreads : Holds(v, l) )

\* What the steps between the locks leave alone
LkData == UNCHANGED << subs, subscriptions, subscriptionList, numSubscriptions, fault >>
LkRest == UNCHANGED << now, newPc, newRet, ret, pub, sse, events, written, mgmt, mem >>
LkTask == UNCHANGED << stopIdleCheck, sweepPc, idList >>

\* DeleteSubscription, line 264: a client calls it with an id
LkDeleteCall(t, subid) ==
    /\ lk[t].pc = "idle"
    /\ lk' = [lk EXCEPT ![t] = [LkIdle EXCEPT !.pc = "del.s", !.h = subid]]
    /\ LkData /\ LkRest /\ LkTask

\* DeleteSubscription, lines 265-270: s.lock.Lock(), and the lookup in the map
LkDeleteLock(t) ==
    /\ lk[t].pc = "del.s"
    /\ CanLock(SLock)
    /\ lk' = [lk EXCEPT ![t].held = Append(@, [ l |-> SLock, m |-> "W" ]),
                        ![t].pc = IF lk[t].h \in subscriptions THEN "del.sub" ELSE "del.ret"]
    /\ LkData /\ LkRest /\ LkTask

\* DeleteSubscription, lines 268-270: the id is not in the map, the deferred
\* Unlock runs
LkDeleteMissing(t) ==
    /\ lk[t].pc = "del.ret"
    /\ lk' = [lk EXCEPT ![t] = LkIdle]
    /\ LkData /\ LkRest /\ LkTask

\* DeleteSubscription, line 271: sub.lock.Lock()
LkDeleteLockSub(t) ==
    /\ lk[t].pc = "del.sub"
    /\ CanLock(lk[t].h)
    /\ lk' = [lk EXCEPT ![t].held = Append(@, [ l |-> lk[t].h, m |-> "W" ]),
                        ![t].pc = "del.do"]
    /\ LkData /\ LkRest /\ LkTask

\* DeleteSubscription, lines 273-287: the record is ended and taken out of the
\* map and the list, and the two deferred Unlock calls run
LkDeleteDo(t) ==
    /\ lk[t].pc = "del.do"
    /\ DoDelete(lk[t].h)
    /\ lk' = [lk EXCEPT ![t] = LkIdle]
    /\ LkRest /\ LkTask

\* Close, line 201: the stop message is sent
LkCloseCall(t) ==
    /\ lk[t].pc = "idle"
    /\ stopIdleCheck < 2
    /\ stopIdleCheck' = stopIdleCheck + 1
    /\ lk' = [lk EXCEPT ![t] = [LkIdle EXCEPT !.pc = "close.s"]]
    /\ LkData /\ LkRest
    /\ UNCHANGED << sweepPc, idList >>

\* Close, lines 202-204: s.lock.Lock(), and the range over subscriptionList
LkCloseLock(t) ==
    /\ lk[t].pc = "close.s"
    /\ CanLock(SLock)
    /\ lk' = [lk EXCEPT ![t].held = Append(@, [ l |-> SLock, m |-> "W" ]),
                        ![t].todo = subscriptionList,
                        ![t].pc = "close.loop"]
    /\ LkData /\ LkRest /\ LkTask

\* Close with the record unlocked at the end of each turn of the loop
LkCloseLockSub_unlocked(t) ==
    /\ lk[t].pc = "close.loop"
    /\ lk[t].todo # <<>>
    /\ LET h == Head(lk[t].todo) IN
        /\ CanLock(h)
        /\ lk' = [lk EXCEPT ![t].todo = Tail(@)]
        /\ IF subs[h].chanClosed
           THEN fault' = "close of closed channel" /\ UNCHANGED subs
           ELSE subs' = [subs EXCEPT ![h] = Ended(subs[h])] /\ UNCHANGED fault
    /\ UNCHANGED << subscriptions, subscriptionList, numSubscriptions >>
    /\ LkRest /\ LkTask

\* Close, lines 205-211: sub.lock.Lock() on the next record of the list, whose
\* Unlock is deferred to the return of Close, and the record is ended
LkCloseLockSub(t) ==
    /\ lk[t].pc = "close.loop"
    /\ lk[t].todo # <<>>
    /\ LET h == Head(lk[t].todo) IN
        /\ CanLock(h)
        /\ lk' = [lk EXCEPT ![t].held = Append(@, [ l |-> h, m |-> "W" ]),
                            ![t].todo = Tail(@)]
        /\ IF subs[h].chanClosed
           THEN fault' = "close of closed channel" /\ UNCHANGED subs
           ELSE subs' = [subs EXCEPT ![h] = Ended(subs[h])] /\ UNCHANGED fault
    /\ UNCHANGED << subscriptions, subscriptionList, numSubscriptions >>
    /\ LkRest /\ LkTask

\* Close, lines 213-216: the list and the map are replaced, the count is reset
\* and the deferred Unlock calls run
LkCloseReturn(t) ==
    /\ lk[t].pc = "close.loop"
    /\ lk[t].todo = <<>>
    /\ subscriptionList' = <<>>
    /\ subscriptions' = {}
    /\ numSubscriptions' = 0
    /\ lk' = [lk EXCEPT ![t] = LkIdle]
    /\ UNCHANGED << subs, fault >>
    /\ LkRest /\ LkTask

\* SetActive, lines 468-471: a client calls it with the handle it holds
LkSetActiveCall(t, h, isActive) ==
    /\ lk[t].pc = "idle"
    /\ lk' = [lk EXCEPT ![t] = [LkIdle EXCEPT !.pc = "act.sub", !.h = h, !.b = isActive]]
    /\ LkData /\ LkRest /\ LkTask

\* SetActive, line 472: subInfo.lock.Lock()
LkSetActiveLock(t) ==
    /\ lk[t].pc = "act.sub"
    /\ CanLock(lk[t].h)
    /\ lk' = [lk EXCEPT ![t].held = Append(@, [ l |-> lk[t].h, m |-> "W" ]),
                        ![t].pc = "act.do"]
    /\ LkData /\ LkRest /\ LkTask

\* SetActive, lines 474-480: the flag and the expiration are written and the
\* deferred Unlock runs
LkSetActiveDo(t) ==
    /\ lk[t].pc = "act.do"
    /\ subs' = [subs EXCEPT ![lk[t].h].active = lk[t].b,
                            ![lk[t].h].expiration = IF lk[t].b THEN ZeroTime
                                                    ELSE now + MaxIdleSubscriptionAge]
    /\ lk' = [lk EXCEPT ![t] = LkIdle]
    /\ UNCHANGED << subscriptions, subscriptionList, numSubscriptions, fault >>
    /\ LkRest /\ LkTask

\* SubscribedChannels, line 518: AllSubscriptions is called
LkMatchCall(t) ==
    /\ lk[t].pc = "idle"
    /\ numSubscriptions # 0
    /\ lk' = [lk EXCEPT ![t] = [LkIdle EXCEPT !.pc = "all.s"]]
    /\ LkData /\ LkRest /\ LkTask

\* AllSubscriptions, line 302: s.lock.Lock()
LkMatchLock(t) ==
    /\ lk[t].pc = "all.s"
    /\ CanLock(SLock)
    /\ lk' = [lk EXCEPT ![t].held = Append(@, [ l |-> SLock, m |-> "W" ]),
                        ![t].pc = "all.ret"]
    /\ LkData /\ LkRest /\ LkTask

\* AllSubscriptions, lines 303-304: the list is returned and s.lock released
LkMatchList(t) ==
    /\ lk[t].pc = "all.ret"
    /\ lk' = [lk EXCEPT ![t].held = <<>>,
                        ![t].todo = subscriptionList,
                        ![t].pc = "match.loop"]
    /\ LkData /\ LkRest /\ LkTask

\* SubscribedChannels, line 521: sub.lock.RLock() on the next record
LkMatchRLock(t) ==
    /\ lk[t].pc = "match.loop"
    /\ lk[t].todo # <<>>
    /\ CanRLock(Head(lk[t].todo))
    /\ lk' = [lk EXCEPT ![t].held = Append(@, [ l |-> Head(lk[t].todo), m |-> "R" ]),
                        ![t].pc = "match.read"]
    /\ LkData /\ LkRest /\ LkTask

\* SubscribedChannels, lines 522-549: the record is read and sub.lock.RUnlock()
LkMatchRUnlock(t) ==
    /\ lk[t].pc = "match.read"
    /\ lk' = [lk EXCEPT ![t].held = <<>>,
                        ![t].todo = Tail(@),
                        ![t].pc = "match.loop"]
    /\ LkData /\ LkRest /\ LkTask

\* SubscribedChannels, line 551: the loop is over
LkMatchReturn(t) ==
    /\ lk[t].pc = "match.loop"
    /\ lk[t].todo = <<>>
    /\ lk' = [lk EXCEPT ![t] = LkIdle]
    /\ LkData /\ LkRest /\ LkTask

\* ageOutTask, line 160, and getAgeOutList, lines 132-133: the ticker fires and
\* the time of the check is taken
LkAgeCall ==
    /\ sweepPc = "wait"
    /\ lk[Sweeper].pc = "idle"
    /\ lk' = [lk EXCEPT ![Sweeper] = [LkIdle EXCEPT !.pc = "age.s", !.at = now]]
    /\ LkData /\ LkRest /\ LkTask

\* getAgeOutList, lines 134-136: s.lock.RLock(), and the range over the map in
\* an order of the run time's choosing
LkAgeRLock ==
    /\ lk[Sweeper].pc = "age.s"
    /\ CanRLock(SLock)
    /\ \E o \in Orders(subscriptions) :
          lk' = [lk EXCEPT ![Sweeper].held = Append(@, [ l |-> SLock, m |-> "R" ]),
                           ![Sweeper].todo = o,
                           ![Sweeper].pc = "age.loop"]
    /\ LkData /\ LkRest /\ LkTask

\* getAgeOutList, line 137: sub.lock.RLock() on the next record
LkAgeRLockSub ==
    /\ lk[Sweeper].pc = "age.loop"
    /\ lk[Sweeper].todo # <<>>
    /\ CanRLock(Head(lk[Sweeper].todo))
    /\ lk' = [lk EXCEPT ![Sweeper].held = Append(@, [ l |-> Head(lk[Sweeper].todo), m |-> "R" ]),
                        ![Sweeper].pc = "age.test"]
    /\ LkData /\ LkRest /\ LkTask

\* getAgeOutList, lines 138-141: the record is tested and sub.lock.RUnlock()
LkAgeTest ==
    /\ lk[Sweeper].pc = "age.test"
    /\ LET h == Head(lk[Sweeper].todo) IN
        /\ idList' = IF AgedOut(subs[h], lk[Sweeper].at) THEN Append(idList, h) ELSE idList
        /\ lk' = [lk EXCEPT ![Sweeper].held = << lk[Sweeper].held[1] >>,
                            ![Sweeper].todo = Tail(@),
                            ![Sweeper].pc = "age.loop"]
    /\ LkData /\ LkRest
    /\ UNCHANGED << stopIdleCheck, sweepPc >>

\* getAgeOutList that returns with s.lock still read-locked
LkAgeReturn_lockKept ==
    /\ lk[Sweeper].pc = "age.loop"
    /\ lk[Sweeper].todo = <<>>
    /\ lk' = [lk EXCEPT ![Sweeper] = [LkIdle EXCEPT !.held = lk[Sweeper].held]]
    /\ sweepPc' = IF idList = <<>> THEN "wait" ELSE "delete"
    /\ LkData /\ LkRest
    /\ UNCHANGED << stopIdleCheck, idList >>

\* getAgeOutList, lines 135 and 143: the deferred s.lock.RUnlock() runs and the
\* list is returned to ageOutCheck
LkAgeReturn ==
    /\ lk[Sweeper].pc = "age.loop"
    /\ lk[Sweeper].todo = <<>>
    /\ lk' = [lk EXCEPT ![Sweeper] = LkIdle]
    /\ sweepPc' = IF idList = <<>> THEN "wait" ELSE "delete"
    /\ LkData /\ LkRest
    /\ UNCHANGED << stopIdleCheck, idList >>

\* ageOutCheck, lines 150-152: DeleteSubscription is called with the next id
LkAgeDelete ==
    /\ sweepPc = "delete"
    /\ lk[Sweeper].pc = "idle"
    /\ lk' = [lk EXCEPT ![Sweeper].pc = "del.s", ![Sweeper].h = Head(idList)]
    /\ idList' = Tail(idList)
    /\ sweepPc' = IF Tail(idList) = <<>> THEN "wait" ELSE "delete"
    /\ LkData /\ LkRest
    /\ UNCHANGED stopIdleCheck

----------------------------------------------------------------------------
(* The include list as a Go slice: header and backing array *)

\* The include list of the record: data[1..len]
View(m) == SubSeq(m.data, 1, m.len)

\* The list a caller of SubscriptionInfo reads through the header it was given
Returned(m) ==
    SubSeq(IF m.got = "shared" THEN m.data ELSE m.gotData, 1, m.gotLen)

\* A slice of the given capacity holding seq; the unused slots are empty strings
Pad(seq, cap) == seq \o [ i \in 1..(cap - Len(seq)) |-> <<>> ]

\* The record's slice is given a new backing array; a header returned earlier
\* goes on pointing to the array the record had
Realloc(m, newdata, newlen) ==
    [m EXCEPT !.data = newdata,
              !.len = newlen,
              !.got = IF m.got = "shared" THEN "own" ELSE m.got,
              !.gotData = IF m.got = "shared" THEN m.data ELSE m.gotData]

\* growslice for one more string on a short slice: capacity 1 from 0, else doubled
Grow(cap) == IF cap = 0 THEN 1 ELSE 2 * cap

\* stringSliceRemove, lines 103-111: a new slice of capacity len-1
memRemove(m, toRemove) ==
    LET rv == stringSliceRemove(View(m), toRemove)
    IN  Realloc(m, Pad(rv, m.len - 1), Len(rv))

\* The loop of lines 404-406
RECURSIVE memRemoveAll(_, _)
memRemoveAll(m, toRemove) ==
    IF toRemove = <<>> THEN m
    ELSE memRemoveAll(memRemove(m, Head(toRemove)), Tail(toRemove))

\* append, line 410: in place when the capacity allows, else into a new array
memAppend(m, s) ==
    IF Len(m.data) > m.len
    THEN [m EXCEPT !.data[m.len + 1] = s, !.len = m.len + 1]
    ELSE Realloc(m, Pad(Append(View(m), s), Grow(Len(m.data))), m.len + 1)

\* sort.Sort, line 411: the elements are moved inside the backing array
memSort(m) ==
    [m EXCEPT !.data = byLengthSort(View(m)) \o SubSeq(m.data, m.len + 1, Len(m.data))]

\* Include, lines 382-412, on the slice of the includes and the exclude list
MemIncludeLists(m, excludes, rawPrefix) ==
    LET topicPrefix == endWithSlash(rawPrefix)
        includesToRemove == SelectSeq(View(m), LAMBDA i : HasPrefix(i, topicPrefix))
        m2 == memRemoveAll(m, includesToRemove)
    IN  IF \E k \in 1..Len(excludes) : excludes[k] = topicPrefix
        THEN [ m |-> m, excludes |-> stringSliceRemove(excludes, topicPrefix), err |-> "ok" ]
        ELSE IF \E k \in 1..m.len : m.data[k] = topicPrefix
        THEN [ m |-> m, excludes |-> excludes, err |-> "ok" ]
        ELSE IF m2.len >= SliceLimit
        THEN [ m |-> m2, excludes |-> excludes, err |-> "include limit reached" ]
        ELSE [ m |-> memSort(memAppend(m2, topicPrefix)), excludes |-> excludes, err |-> "ok" ]

\* What the calls on the slices leave alone
MemFrame ==
    UNCHANGED << subscriptions, subscriptionList, numSubscriptions, stopIdleCheck,
                 now, newPc, newRet, sweepPc, idList, pub, fault,
                 sse, events, written, mgmt, lk >>

\* Include, lines 378-413, on the slices of the record
MemInclude(h, topicPrefix) ==
    /\ h \in Allocated
    /\ LET r == MemIncludeLists(mem[h], subs[h].excludes, topicPrefix) IN
        /\ mem' = [mem EXCEPT ![h] = r.m]
        /\ subs' = [subs EXCEPT ![h].includes = View(r.m), ![h].excludes = r.excludes]
        /\ ret' = [ op |-> "Include", h |-> h, p |-> topicPrefix, err |-> r.err ]
    /\ MemFrame

\* Exclude, lines 425-438, called with an entry of the include list, as the
\* clear phase of PUT calls it: the entry is removed from the includes
MemExclude(h, topicPrefix) ==
    /\ h \in Allocated
    /\ endWithSlash(topicPrefix) \in Range(View(mem[h]))
    /\ LET m2 == memRemove(mem[h], endWithSlash(topicPrefix)) IN
        /\ mem' = [mem EXCEPT ![h] = m2]
        /\ subs' = [subs EXCEPT ![h].includes = View(m2)]
    /\ ret' = [ op |-> "Exclude", h |-> h, p |-> topicPrefix, err |-> "ok" ]
    /\ MemFrame

\* SubscriptionInfo, lines 336-347: the caller is given the slice header of the
\* record; seen is the list it reads through it on return
MemInfo(h) ==
    /\ h \in Allocated
    /\ mem' = [mem EXCEPT ![h].got = "shared", ![h].gotData = <<>>,
                          ![h].gotLen = mem[h].len, ![h].seen = View(mem[h])]
    /\ UNCHANGED << subs, ret >>
    /\ MemFrame

\* getSubscription, lines 85-96, or putSubscription, lines 103-116: the caller
\* has read the list for the last time
MemDone(h) ==
    /\ mem[h].got # "none"
    /\ mem' = [mem EXCEPT ![h] = [mem[h] EXCEPT !.got = "none", !.gotData = <<>>,
                                                !.gotLen = 0, !.seen = <<>>]]
    /\ UNCHANGED << subs, ret >>
    /\ MemFrame

----------------------------------------------------------------------------
(* Specifications *)

\* No goroutine has panicked: the process is running
Running == fault = "none"

\* Concurrent NewSubscription calls beside DeleteSubscription, of ids registered,
\* deleted or never handed out, and Close
NextCreate ==
    \/ Running /\ \E c \in Creators : NewSubCheck(c)
    \/ Running /\ \E c \in Creators : NewSubTokenErr(c)
    \/ Running /\ \E c \in Creators : NewSubInsert(c)
    \/ Running /\ \E subid \in Recs : DeleteSubscription(subid)
    \/ Running /\ Close

SpecCreate == Init /\ [][NextCreate]_vars

\* The age-out task beside a client that creates subscriptions and sets their flags
NextSweep ==
    \/ Running /\ NewSubCheck(1)
    \/ Running /\ NewSubInsert(1)
    \/ Running /\ \E h \in subscriptions, b \in BOOLEAN : SetActive(h, b)
    \/ Running /\ \E h \in subscriptions, b \in BOOLEAN : SetProcess(h, b)
    \/ Running /\ Tick
    \/ Running /\ AgeOutCollect
    \/ Running /\ AgeOutDelete
    \/ Running /\ AgeOutStop
    \/ Running /\ Close

SpecSweep == Init /\ [][NextSweep]_vars

\* Clients that create subscriptions, delete them by id, ids already deleted
\* included, and close the manager, beside the age-out task
NextClose ==
    \/ Running /\ NewSubCheck(1)
    \/ Running /\ NewSubInsert(1)
    \/ Running /\ \E h \in subscriptions : SetActive(h, TRUE)
    \/ Running /\ \E subid \in Allocated : DeleteSubscription(subid)
    \/ Running /\ Tick
    \/ Running /\ AgeOutCollect
    \/ Running /\ AgeOutDelete
    \/ Running /\ AgeOutStop
    \/ Running /\ Close

SpecClose == Init /\ [][NextClose]_vars

\* Two clients and the age-out task followed lock by lock: the clients delete
\* by id, close the manager, set the active flag and match, beside a client
\* whose NewSubscription takes s.lock for its insertion alone (lines 249-261)
NextLocks ==
    \/ Running /\ Cardinality(Allocated) < LockRecs /\ NewSubCheck(1)
    \/ Running /\ CanLock(SLock) /\ NewSubInsert(1)
    \/ Running /\ Tick
    \/ Running /\ lk[Sweeper].pc = "idle" /\ AgeOutStop
    \/ Running /\ \E t \in Lockers, subid \in Allocated : LkDeleteCall(t, subid)
    \/ Running /\ \E t \in LkThreads : LkDeleteLock(t)
    \/ Running /\ \E t \in LkThreads : LkDeleteMissing(t)
    \/ Running /\ \E t \in LkThreads : LkDeleteLockSub(t)
    \/ Running /\ \E t \in LkThreads : LkDeleteDo(t)
    \/ Running /\ \E t \in Lockers : LkCloseCall(t)
    \/ Running /\ \E t \in Lockers : LkCloseLock(t)
    \/ Running /\ \E t \in Lockers : LkCloseLockSub(t)
    \/ Running /\ \E t \in Lockers : LkCloseReturn(t)
    \/ Running /\ \E t \in Lockers, h \in Allocated : LkSetActiveCall(t, h, FALSE)
    \/ Running /\ \E t \in Lockers : LkSetActiveLock(t)
    \/ Running /\ \E t \in Lockers : LkSetActiveDo(t)
    \/ Running /\ \E t \in Lockers : LkMatchCall(t)
    \/ Running /\ \E t \in Lockers : LkMatchLock(t)
    \/ Running /\ \E t \in Lockers : LkMatchList(t)
    \/ Running /\ \E t \in Lockers : LkMatchRLock(t)
    \/ Running /\ \E t \in Lockers : LkMatchRUnlock(t)
    \/ Running /\ \E t \in Lockers : LkMatchReturn(t)
    \/ Running /\ LkAgeCall
    \/ Running /\ LkAgeRLock
    \/ Running /\ LkAgeRLockSub
    \/ Running /\ LkAgeTest
    \/ Running /\ LkAgeReturn
    \/ Running /\ LkAgeDelete

SpecLocks == Init /\ [][NextLocks]_vars

\* One subscription whose include list is edited while a request holds the
\* list that SubscriptionInfo returned to it
NextSlices ==
    \/ Running /\ Cardinality(Allocated) < AttachRecs /\ NewSubCheck(1)
    \/ Running /\ NewSubInsert(1)
    \/ Running /\ \E h \in Allocated, p \in SlicePrefixes : MemInclude(h, p)
    \/ Running /\ \E h \in Allocated, p \in SlicePrefixes : MemExclude(h, p)
    \/ Running /\ \E h \in Allocated : MemInfo(h)
    \/ Running /\ \E h \in Allocated : MemDone(h)

SpecSlices == Init /\ [][NextSlices]_vars

\* The ticker of ageOutTask keeps firing and the goroutine keeps being scheduled
SpecSweepFair ==
    /\ SpecSweep
    /\ WF_vars(Running /\ AgeOutCollect)
    /\ WF_vars(Running /\ AgeOutDelete)

\* The event pipeline beside the clients and the SSE receiver
NextPipeline ==
    \/ Running /\ NewSubCheck(1)
    \/ Running /\ NewSubInsert(1)
    \/ Running /\ \E subid \in subscriptions : DeleteSubscription(subid)
    \/ Running /\ Close
    \/ Running /\ \E h \in subscriptions, p \in ConcPrefixes : Include(h, p)
    \/ Running /\ \E h \in subscriptions, b \in BOOLEAN : SetActive(h, b)
    \/ Running /\ \E t \in ConcTopics : PubStart(t)
    \/ Running /\ PubSnapshot
    \/ Running /\ PubMatchOne
    \/ Running /\ PubReturn
    \/ Running /\ PubSend
    \/ Running /\ \E h \in Allocated : Receive(h)

SpecPipeline == Init /\ [][NextPipeline]_vars

\* The prefixes tried on a handle: all of them on the first subscription
PrefixesFor(h) == IF h = 1 THEN RawPrefixes ELSE ConcPrefixes

\* One management client creating subscriptions and editing their lists and flags
NextLists ==
    \/ NewSubCheck(1)
    \/ NewSubInsert(1)
    \/ \E h \in Allocated \cup {Nil} : \E p \in PrefixesFor(h) : Include(h, p)
    \/ \E h \in Allocated \cup {Nil} : \E p \in PrefixesFor(h) : Exclude(h, p)
    \/ \E h \in Allocated, b \in BOOLEAN : SetActive(h, b)

SpecLists == Init /\ [][NextLists]_vars

\* The SSE endpoint beside the event pipeline and the clients; the age-out task
\* deletes through the same DeleteSubscription, so it and the clock are left out
NextSse ==
    \/ Running /\ Cardinality(Allocated) < SseRecs /\ NewSubCheck(1)
    \/ Running /\ NewSubInsert(1)
    \/ Running /\ \E h \in subscriptions, p \in ConcPrefixes : Include(h, p)
    \/ Running /\ \E subid \in subscriptions : DeleteSubscription(subid)
    \/ Running /\ Close
    \/ Running /\ \E t \in ConcTopics : PubStart(t)
    \/ Running /\ PubSnapshot
    \/ Running /\ PubMatchOne
    \/ Running /\ PubReturn
    \/ Running /\ PubSend
    \/ Running /\ \E k \in Streams, subid \in Allocated : SseLookup(k, subid)
    \/ Running /\ \E k \in Streams : SseCheckDeleted(k)
    \/ Running /\ \E k \in Streams : SseCheckClosed(k)
    \/ Running /\ \E k \in Streams : SseRespond(k)
    \/ Running /\ \E k \in Streams : SseActivate(k)
    \/ Running /\ \E k \in Streams : SseReceive(k)
    \/ Running /\ \E k \in Streams : SseClosed(k)
    \/ Running /\ \E k \in Streams : SseCtxDone(k)
    \/ Running /\ \E k \in Streams : SseWrite(k)
    \/ Running /\ \E k \in Streams : SseExit(k)
    \/ Running /\ \E k \in Streams : ClientCancel(k)

SpecSse == Init /\ [][NextSse]_vars

\* Any step of the pipeline goroutine once Publish has been called
PubStep == PubSnapshot \/ PubMatchOne \/ PubReturn \/ PubSend

\* The Go scheduler runs every goroutine that can take a step: the SSE request
\* goroutines and the pipeline goroutine; clients and the manager's callers are free
SpecSseFair ==
    /\ SpecSse
    /\ \A k \in Streams : WF_vars(Running /\ SseStep(k))
    /\ WF_vars(Running /\ PubStep)

\* Several SSE requests at the same time, good and bad, on the first records
\* created, beside the event pipeline and the clients
NextAttach ==
    \/ Running /\ Cardinality(Allocated) < AttachRecs /\ NewSubCheck(1)
    \/ Running /\ NewSubInsert(1)
    \/ Running /\ \E h \in subscriptions, p \in ConcPrefixes : Include(h, p)
    \/ Running /\ \E subid \in subscriptions : DeleteSubscription(subid)
    \/ Running /\ Close
    \/ Running /\ \E t \in ConcTopics : PubStart(t)
    \/ Running /\ PubSnapshot
    \/ Running /\ PubMatchOne
    \/ Running /\ PubReturn
    \/ Running /\ PubSend
    \/ Running /\ \E k \in Handlers, m \in EventMethods, p \in Paths : SseReject(k, m, p)
    \/ Running /\ \E k \in Handlers, subid \in Allocated : SseLookup(k, subid)
    \/ Running /\ \E k \in Handlers : SseCheckDeleted(k)
    \/ Running /\ \E k \in Handlers : SseCheckClosed(k)
    \/ Running /\ \E k \in Handlers : SseRespond(k)
    \/ Running /\ \E k \in Handlers : SseActivate(k)
    \/ Running /\ \E k \in Handlers : SseReceive(k)
    \/ Running /\ \E k \in Handlers : SseClosed(k)
    \/ Running /\ \E k \in Handlers : SseCtxDone(k)
    \/ Running /\ \E k \in Handlers : SseWrite(k)
    \/ Running /\ \E k \in Handlers : SseExit(k)
    \/ Running /\ \E k \in Handlers : ClientCancel(k)

SpecAttach == Init /\ [][NextAttach]_vars

\* One management request at a time, of every method and body, on the first
\* records created, beside the clients of the manager that delete
NextMgmt ==
    \/ Running /\ Cardinality(Allocated) < MgmtRecs /\ NewSubCheck(1)
    \/ Running /\ NewSubInsert(1)
    \/ Running /\ \E subid \in subscriptions : DeleteSubscription(subid)
    \/ Running /\ \E c \in Editors, m \in Methods, subid \in Recs, b \in Bodies :
                      MgmtRequest(c, m, subid, b)
    \/ Running /\ \E c \in Editors : MgmtSetProcess(c)
    \/ Running /\ \E c \in Editors : MgmtCheckDeleted(c)
    \/ Running /\ \E c \in Editors : MgmtCheckClosed(c)
    \/ Running /\ \E c \in Editors : MgmtInfo(c)
    \/ Running /\ \E c \in Editors : MgmtDelete(c)
    \/ Running /\ \E c \in Editors : MgmtPutInclude(c)
    \/ Running /\ \E c \in Editors : MgmtPutExclude(c)
    \/ Running /\ \E c \in Editors : MgmtPatchInclude(c)
    \/ Running /\ \E c \in Editors : MgmtPatchExclude(c)
    \/ Running /\ \E c \in Editors : MgmtFinish(c)

SpecMgmt == Init /\ [][NextMgmt]_vars

\* Raw topic prefixes of which no one covers another, one more than the limit,
\* and none of them the prefix of a topic that is published
LimitPrefixes == { <<"b">>, <<"c">>, <<"d">> }

\* The prefixes included on a handle: enough to reach the limit on the first subscription
LimitPrefixesFor(h) == IF h = 1 THEN LimitPrefixes ELSE ConcPrefixes

\* The calls of the manager's clients on the first records created, on
\* registered and on deleted ones, each made while the pipeline goroutine is
\* outside Publish, and one event that fills a channel
NextFrame ==
    \/ Running /\ Cardinality(Allocated) < MgmtRecs /\ NewSubCheck(1)
    \/ Running /\ NewSubInsert(1)
    \/ Running /\ pub.pc = "idle" /\ \E h \in Allocated : \E p \in LimitPrefixesFor(h) : Include(h, p)
    \/ Running /\ pub.pc = "idle" /\ \E h \in Allocated, p \in ConcPrefixes : Exclude(h, p)
    \/ Running /\ pub.pc = "idle" /\ \E h \in Allocated, b \in BOOLEAN : SetActive(h, b)
    \/ Running /\ pub.pc = "idle" /\ \E h \in Allocated, b \in BOOLEAN : SetProcess(h, b)
    \/ Running /\ pub.pc = "idle" /\ \E subid \in Recs : DeleteSubscription(subid)
    \/ Running /\ events = 0 /\ \E t \in ConcTopics : PubStart(t)
    \/ Running /\ PubSnapshot
    \/ Running /\ PubMatchOne
    \/ Running /\ PubReturn
    \/ Running /\ PubSend

SpecFrame == Init /\ [][NextFrame]_vars

\* Topics published while the lists are edited: one under the include of the
\* bodies, one under their exclude
MatchTopics == { <<"a">>, <<"a", "/", "b">> }

\* Bodies of the requests that edit the lists while events are published
MatchBodies ==
    { [ valid |-> TRUE, include |-> << <<"a">> >>, exclude |-> <<>> ],
      [ valid |-> TRUE, include |-> << <<"a">> >>, exclude |-> << <<"a", "/", "b">> >> ] }

\* Raw topic prefixes handed to Include/Exclude while events are published
MatchPrefixes == { <<"a">>, <<"a", "/", "b">> }

\* The event pipeline beside the clients that create, delete, activate and edit
\* the lists of the first records created
NextMatch ==
    \/ Running /\ Cardinality(Allocated) < MgmtRecs /\ NewSubCheck(1)
    \/ Running /\ NewSubInsert(1)
    \/ Running /\ \E h \in subscriptions, b \in BOOLEAN : SetActive(h, b)
    \/ Running /\ \E subid \in subscriptions : DeleteSubscription(subid)
    \/ Running /\ \E h \in subscriptions, p \in MatchPrefixes : Include(h, p)
    \/ Running /\ \E h \in subscriptions, p \in MatchPrefixes : Exclude(h, p)
    \/ Running /\ events = 0 /\ \E t \in MatchTopics : PubStart(t)
    \/ Running /\ PubSnapshot
    \/ Running /\ PubMatchOne
    \/ Running /\ PubReturn
    \/ Running /\ PubSend

SpecMatch == Init /\ [][NextMatch]_vars

\* PUT requests, one at a time, on the first record created, beside the event
\* pipeline and the clients that create, activate and delete
NextPut ==
    \/ Running /\ Cardinality(Allocated) < AttachRecs /\ NewSubCheck(1)
    \/ Running /\ NewSubInsert(1)
    \/ Running /\ \E h \in subscriptions, b \in BOOLEAN : SetActive(h, b)
    \/ Running /\ \E subid \in subscriptions : DeleteSubscription(subid)
    \/ Running /\ \E c \in Editors, subid \in Allocated, b \in MatchBodies :
                      MgmtRequest(c, "PUT", subid, b)
    \/ Running /\ \E c \in Editors : MgmtSetProcess(c)
    \/ Running /\ \E c \in Editors : MgmtCheckDeleted(c)
    \/ Running /\ \E c \in Editors : MgmtCheckClosed(c)
    \/ Running /\ \E c \in Editors : MgmtInfo(c)
    \/ Running /\ \E c \in Editors : MgmtPutInclude(c)
    \/ Running /\ \E c \in Editors : MgmtPutExclude(c)
    \/ Running /\ \E c \in Editors : MgmtPatchInclude(c)
    \/ Running /\ \E c \in Editors : MgmtPatchExclude(c)
    \/ Running /\ \E c \in Editors : MgmtFinish(c)
    \/ Running /\ \E t \in MatchTopics : PubStart(t)
    \/ Running /\ PubSnapshot
    \/ Running /\ PubMatchOne
    \/ Running /\ PubReturn
    \/ Running /\ PubSend

SpecPut == Init /\ [][NextPut]_vars

\* Bodies of the requests that overlap
OverlapBodies == { [ valid |-> TRUE, include |-> << <<"a">> >>, exclude |-> << <<"a", "/", "b">> >> ] }

\* Management requests of several goroutines at the same time on the first
\* record created, beside the clock
NextOverlap ==
    \/ Running /\ Cardinality(Allocated) < AttachRecs /\ NewSubCheck(1)
    \/ Running /\ NewSubInsert(1)
    \/ Running /\ Tick
    \/ Running /\ \E c \in Clients, m \in Methods, subid \in Allocated, b \in OverlapBodies :
                      MgmtRequest(c, m, subid, b)
    \/ Running /\ \E c \in Clients : MgmtSetProcess(c)
    \/ Running /\ \E c \in Clients : MgmtCheckDeleted(c)
    \/ Running /\ \E c \in Clients : MgmtCheckClosed(c)
    \/ Running /\ \E c \in Clients : MgmtInfo(c)
    \/ Running /\ \E c \in Clients : MgmtDelete(c)
    \/ Running /\ \E c \in Clients : MgmtPutInclude(c)
    \/ Running /\ \E c \in Clients : MgmtPutExclude(c)
    \/ Running /\ \E c \in Clients : MgmtPatchInclude(c)
    \/ Running /\ \E c \in Clients : MgmtPatchExclude(c)
    \/ Running /\ \E c \in Clients : MgmtFinish(c)

SpecOverlap == Init /\ [][NextOverlap]_vars

----------------------------------------------------------------------------
(* Properties *)

\* The include-and-not-exclude criterion of the package comment, lines 12-14
Criterion(sub, topic) ==
    /\ \E i \in Range(sub.includes) : HasPrefix(endWithSlash(topic), i)
    /\ ~ \E e \in Range(sub.excludes) : HasPrefix(endWithSlash(topic), e)

\* No element of the list is a proper prefix of another element of it
Coalesced(list) ==
    \A x, y \in Range(list) : x # y => ~HasPrefix(y, x)

\* The list is sorted by non-decreasing length
SortedByLength(list) ==
    \A i, j \in 1..Len(list) : i < j => Len(list[i]) <= Len(list[j])

\* The step is an Include or Exclude call on a record
ListCall ==
    /\ ret'.h # Nil
    /\ ret'.op # "none"
    /\ \/ ret' # ret
       \/ subs'[ret'.h].includes # subs[ret'.h].includes
       \/ subs'[ret'.h].excludes # subs[ret'.h].excludes

\* The five steps of the coalescence rule for prefix P, from target list L and
\* opposite list O to L2 and O2 with error e
FiveSteps(L, O, L2, O2, P, e) ==
    IF P \in Range(O)
    THEN /\ e = "ok"
         /\ L2 = L
         /\ Range(O2) = Range(O) \ {P}
         /\ Len(O2) = Len(O) - 1
    ELSE IF P \in Range(L)
    THEN e = "ok" /\ L2 = L /\ O2 = O
    ELSE IF Cardinality({ x \in Range(L) : ~HasPrefix(x, P) }) >= IncludeExcludeLimit
    THEN /\ e \in { "include limit reached", "exclude limit reached" }
         /\ O2 = O
    ELSE /\ e = "ok"
         /\ O2 = O
         /\ Range(L2) = { x \in Range(L) : ~HasPrefix(x, P) } \cup {P}
         /\ Len(L2) = Cardinality(Range(L2))

\* C1: SubscribedChannels(T) returns the channel of a subscription exactly when the
\* subscription is active, some include is a prefix of the slash-ended T and no
\* exclude is; the early exits on length never change that
C1_MatchIffCriterion ==
    \A topic \in Topics : \A h \in Allocated :
        (h \in Range(SubscribedChannels(topic)))
            <=> (h \in subscriptions /\ subs[h].active /\ Criterion(subs[h], topic))

\* C1 witness: a subscription is returned for one topic although an exclude longer
\* than that topic is listed, and is kept out for another topic by an exclude
C1_Witness ==
    \E h \in Allocated : \E t1, t2 \in Topics :
        /\ h \in Range(SubscribedChannels(t1))
        /\ \E e \in Range(subs[h].excludes) : Len(e) > Len(endWithSlash(t1))
        /\ h \notin Range(SubscribedChannels(t2))
        /\ \E i \in Range(subs[h].includes) : HasPrefix(endWithSlash(t2), i)

\* C2: a send on a channel returned by SubscribedChannels never panics because the
\* channel was closed after the match returned it
C2_SendNeverFaults == fault # "send on closed channel"

\* C3: a subscription that is active or processing when the age-out task calls
\* DeleteSubscription on it stays in the registry
C3_SweeperSparesBusy ==
    [][ ( /\ sweepPc = "delete"
          /\ idList' = Tail(idList)
          /\ Head(idList) \in subscriptions
          /\ subs[Head(idList)].active \/ subs[Head(idList)].process )
        => Head(idList) \in subscriptions' ]_vars

\* C4: the number of live subscriptions never exceeds the subscription limit
C4_WithinSubscriptionLimit == Cardinality(subscriptions) <= SubscriptionLimit

\* C5: neither list of a subscription holds a proper prefix of another of its elements
C5_Coalesced ==
    \A h \in Allocated : Coalesced(subs[h].includes) /\ Coalesced(subs[h].excludes)

\* C6: every Include call follows the five-step coalescence rule with L the include
\* list and O the exclude list, and every Exclude call follows it with the lists
\* swapped; entries of O that the prefix only covers stay
C6_FiveStepRule ==
    [][ ListCall =>
        LET h == ret'.h
            P == endWithSlash(ret'.p)
        IN  IF ret'.op = "Include"
            THEN FiveSteps(subs[h].includes, subs[h].excludes,
                           subs'[h].includes, subs'[h].excludes, P, ret'.err)
            ELSE FiveSteps(subs[h].excludes, subs[h].includes,
                           subs'[h].excludes, subs'[h].includes, P, ret'.err) ]_vars

\* C6 witness: an Include has cancelled the equal exclude, added nothing to the
\* includes, and left an exclude that the prefix covers
C6_Witness ==
    /\ ret.op = "Include" /\ ret.h # Nil /\ ret.err = "ok"
    /\ endWithSlash(ret.p) \notin Range(subs[ret.h].includes)
    /\ endWithSlash(ret.p) \notin Range(subs[ret.h].excludes)
    /\ \E e \in Range(subs[ret.h].excludes) : HasPrefix(e, endWithSlash(ret.p))

\* C7: no string is in both the include list and the exclude list of a subscription
C7_Disjoint ==
    \A h \in Allocated : Range(subs[h].includes) \cap Range(subs[h].excludes) = {}

\* C7 witness: an Exclude has cancelled the equal include while both lists hold entries
C7_Witness ==
    /\ ret.op = "Exclude" /\ ret.h # Nil /\ ret.err = "ok"
    /\ endWithSlash(ret.p) \notin Range(subs[ret.h].excludes)
    /\ subs[ret.h].includes # <<>>
    /\ subs[ret.h].excludes # <<>>

\* C8: both lists of every subscription are sorted by non-decreasing length
C8_SortedByLength ==
    \A h \in Allocated :
        SortedByLength(subs[h].includes) /\ SortedByLength(subs[h].excludes)

\* C8 witness: the sort has moved the prefix just included in front of a longer entry
C8_Witness ==
    /\ ret.op = "Include" /\ ret.h # Nil /\ ret.err = "ok"
    /\ Len(subs[ret.h].includes) >= 2
    /\ subs[ret.h].includes[1] = endWithSlash(ret.p)
    /\ Len(subs[ret.h].includes[1]) < Len(subs[ret.h].includes[2])

\* C9: each list of every subscription holds at most IncludeExcludeLimit entries,
\* each list counted on its own
C9_WithinListLimit ==
    \A h \in Allocated :
        /\ Len(subs[h].includes) <= IncludeExcludeLimit
        /\ Len(subs[h].excludes) <= IncludeExcludeLimit

\* C9 witness: an Exclude has added an entry while the include list is full, and
\* both lists are full
C9_Witness ==
    /\ ret.op = "Exclude" /\ ret.h # Nil /\ ret.err = "ok"
    /\ endWithSlash(ret.p) \in Range(subs[ret.h].excludes)
    /\ Len(subs[ret.h].includes) = IncludeExcludeLimit
    /\ Len(subs[ret.h].excludes) = IncludeExcludeLimit

\* C10: an Include or Exclude call that returns the limit error leaves both lists
\* of the subscription as they were
C10_LimitErrorChangesNothing ==
    [][ ( ListCall /\ ret'.err \in { "include limit reached", "exclude limit reached" } )
        => /\ subs'[ret'.h].includes = subs[ret'.h].includes
           /\ subs'[ret'.h].excludes = subs[ret'.h].excludes ]_vars

\* C10 witness: an Include has returned the limit error on a full include list
\* that holds an entry beginning with another entry
C10_Witness ==
    /\ ret.op = "Include" /\ ret.h # Nil /\ ret.err = "include limit reached"
    /\ Len(subs[ret.h].includes) = IncludeExcludeLimit
    /\ ~Coalesced(subs[ret.h].includes)

\* Include and Exclude of the raw prefix p and of p followed by "/" have the same
\* outcome on the lists of every subscription
SlashEquivalent(p) ==
    \A h \in Allocated :
        /\ IncludeLists(subs[h].includes, subs[h].excludes, p)
               = IncludeLists(subs[h].includes, subs[h].excludes, Append(p, "/"))
        /\ ExcludeLists(subs[h].includes, subs[h].excludes, p)
               = ExcludeLists(subs[h].includes, subs[h].excludes, Append(p, "/"))

\* Every entry stored in either list of a subscription
StoredEntries == UNION { Range(subs[h].includes) \cup Range(subs[h].excludes) : h \in Allocated }

\* The rewriting of endWithSlash is idempotent and leaves the empty string empty
NormalizationLaws ==
    /\ \A p \in RawPrefixes \cup Topics : endWithSlash(endWithSlash(p)) = endWithSlash(p)
    /\ endWithSlash(<<>>) = <<>>

\* C11 as stated: a non-empty raw prefix and the same prefix followed by "/" are
\* equivalent for Include and Exclude, the rewriting is idempotent and leaves the
\* empty string empty, and every stored entry of either list ends with "/"
C11_EveryEntryEndsWithSlash ==
    /\ NormalizationLaws
    /\ \A p \in RawPrefixes : (p # <<>> /\ ~HasSuffixSlash(p)) => SlashEquivalent(p)
    /\ \A e \in StoredEntries : HasSuffixSlash(e)

\* C11 amended: the same equivalence and laws, and every stored entry is either
\* the empty prefix, stored as given, or ends with "/"
C11_EntryEmptyOrEndsWithSlash ==
    /\ NormalizationLaws
    /\ \A p \in RawPrefixes : (p # <<>> /\ ~HasSuffixSlash(p)) => SlashEquivalent(p)
    /\ \A e \in StoredEntries : e = <<>> \/ HasSuffixSlash(e)

\* C11 witness: an Include of a raw prefix without the slash has stored the entry
\* with the slash in a full include list, beside an empty entry in the excludes
C11_Witness ==
    /\ ret.op = "Include" /\ ret.h # Nil /\ ret.err = "ok"
    /\ ret.p # <<>> /\ ~HasSuffixSlash(ret.p)
    /\ Append(ret.p, "/") \in Range(subs[ret.h].includes)
    /\ Len(subs[ret.h].includes) = IncludeExcludeLimit
    /\ <<>> \in Range(subs[ret.h].excludes)

\* C12: the ids in the map and the elements of subscriptionList are the same set,
\* the list holds no id twice, and the cached count is the size of the map
C12_RegistryConsistent ==
    /\ Range(subscriptionList) = subscriptions
    /\ Len(subscriptionList) = Cardinality(subscriptions)
    /\ numSubscriptions = Cardinality(subscriptions)

\* C12 witness: a subscription has been deleted and another created after it is
\* registered
C12_Witness ==
    \E h, g \in Allocated :
        /\ h < g
        /\ h \notin subscriptions
        /\ g \in subscriptions
        /\ numSubscriptions = 1

\* The SSE request goroutine k holds the receive end of its subscription's channel
Attached(k) == sse[k].pc \in { "activate", "select", "write" }

\* C15: an SSE request goroutine that holds the channel of a subscription whose
\* channel has been closed eventually returns, wherever in its loop it was when
\* the channel was closed, as long as the process runs
C15_HandlerLeavesClosedQueue ==
    \A k \in Handlers :
        (Attached(k) /\ subs[sse[k].h].chanClosed) ~> (sse[k].pc = "idle" \/ ~Running)

\* C15 witness: the subscription was ended while the goroutine was writing a
\* frame and a message is still buffered in the closed channel
C15_Witness ==
    \E k \in Handlers :
        /\ sse[k].pc = "write"
        /\ subs[sse[k].h].chanClosed
        /\ subs[sse[k].h].channel # <<>>
        /\ Running

\* IsSubscriptionDeleted, lines 309-317
IsSubscriptionDeleted(h) == subs[h].SubId = 0

\* IsChannelClosed, lines 321-329
IsChannelClosed(h) == subs[h].IsClosedChan

\* What holds of every created record in one state: it is registered or deleted,
\* never both; a deleted record has its channel closed; the two tests agree
TombstoneState ==
    \A h \in Allocated :
        /\ IsSubscriptionDeleted(h) <=> IsChannelClosed(h)
        /\ IsSubscriptionDeleted(h) <=> h \notin subscriptions
        /\ IsSubscriptionDeleted(h) <=> h \notin Range(subscriptionList)
        /\ IsSubscriptionDeleted(h) <=> subs[h].chanClosed

\* C13: a record is deleted in one step, in which it leaves the map and the list,
\* loses its id and has its channel closed; it stays so in every later state, and
\* IsSubscriptionDeleted and IsChannelClosed give the same answer in every state
C13_TombstoneTerminal ==
    /\ []TombstoneState
    /\ [][ \A h \in Allocated : IsSubscriptionDeleted(h) => IsSubscriptionDeleted(h)' ]_vars

\* C13 witness: an SSE request goroutine holds a record deleted under it and has
\* set it active, while another subscription is registered
C13_Witness ==
    \E k \in Handlers :
        /\ sse[k].pc = "select"
        /\ IsSubscriptionDeleted(sse[k].h)
        /\ subs[sse[k].h].active
        /\ subscriptions # {}

\* C14: a DeleteSubscription call on an id that is not registered, because it was
\* never handed out or is already deleted, changes no record, neither the map,
\* the list nor the count, and raises no panic; so a second delete of an id
\* leaves the state of the first
C14_DeleteIdempotent ==
    [][ ( /\ ret'.op = "Delete"
          /\ ret'.h \notin subscriptions
          /\ ret' # ret \/ DeleteSubscription(ret'.h) )
        => UNCHANGED << subs, subscriptions, subscriptionList, numSubscriptions, fault >> ]_vars

\* C14 witness: the last call deleted an id never handed out, while one
\* subscription is registered and another is already deleted
C14_Witness ==
    /\ ret.op = "Delete"
    /\ ret.h \notin Allocated
    /\ subscriptions # {}
    /\ Allocated \ subscriptions # {}
    /\ Running

\* No other SSE request goroutine serves the subscription that k serves
OnlyHandler(k) == \A j \in Handlers : j # k => (sse[j].pc = "idle" \/ sse[j].h # sse[k].h)

\* C16: once the client of the only SSE request on a subscription has gone, the
\* request goroutine eventually returns, as long as the process runs; the step in
\* which it returns leaves the subscription inactive, so that SubscribedChannels
\* returns its channel for no topic
C16_DisconnectDeactivates ==
    /\ \A k \in Handlers :
           (Attached(k) /\ sse[k].ctx /\ OnlyHandler(k)) ~> (sse[k].pc = "idle" \/ ~Running)
    /\ [][ \A k \in Handlers :
               (sse[k].pc = "exit" /\ sse'[k].pc = "idle")
                   => /\ ~subs'[sse[k].h].active
                      /\ \A t \in Topics : ~MatchesSub(subs'[sse[k].h], endWithSlash(t)) ]_vars

\* C16 witness: the select of the only request on a registered subscription with
\* an include has taken the cancelled context while a message was still buffered;
\* the subscription is active until the goroutine returns
C16_Witness ==
    \E k \in Handlers :
        /\ sse[k].pc = "exit" /\ sse[k].ctx /\ OnlyHandler(k)
        /\ sse[k].h \in subscriptions
        /\ subs[sse[k].h].active
        /\ subs[sse[k].h].includes # <<>>
        /\ subs[sse[k].h].channel # <<>>

\* C17: a registered subscription that is inactive, not processing and past its
\* expiration is eventually deleted, unless it stops being idle (a flag is set
\* or its expiration is renewed) or the age-out task is stopped first; and every sweep that collects anything collects exactly
\* the registered subscriptions that are so at that time
C17_SweeperDeletesIdle ==
    /\ \A h \in Recs :
           (h \in subscriptions /\ AgedOut(subs[h], now))
               ~> \/ IsSubscriptionDeleted(h) /\ subs[h].chanClosed /\ h \notin subscriptions
                  \/ ~AgedOut(subs[h], now)
                  \/ sweepPc = "stopped"
    /\ [][ (sweepPc = "wait" /\ sweepPc' = "delete")
            => Range(idList') = { h \in subscriptions : AgedOut(subs[h], now) } ]_vars

\* C17 witness: with the age-out task running and Close never called, one
\* subscription has been deleted and a younger one is still registered
C17_Witness ==
    /\ stopIdleCheck = 0
    /\ sweepPc = "wait"
    /\ \E h \in Allocated \ subscriptions : \E g \in subscriptions : ~AgedOut(subs[g], now)

\* The numbers of the sequence grow strictly: every event at most once, in the
\* order in which the pipeline goroutine was handed the events
StrictlyIncreasing(q) == \A i, j \in 1..Len(q) : i < j => q[i] < q[j]

\* The message the SSE request goroutine k has received and not yet written
InHand(k) == IF sse[k].pc = "write" THEN << sse[k].msg >> ELSE <<>>

SendBlocked ==
    /\ pub.pc = "send"
    /\ Len(subs[Head(pub.rv)].channel) >= ChanBufferSize

\* C19: no channel ever buffers more than ChanBufferSize messages; while the
\* channel it sends on is full the pipeline goroutine does not advance; and the
\* content of a channel changes only by losing its first message to a receiver
\* or by gaining one message at its end when it had room
C19_FullQueueBlocks ==
    /\ [](\A h \in Allocated : Len(subs[h].channel) <= ChanBufferSize)
    /\ [][ SendBlocked => pub' = pub ]_vars
    /\ [][ \A h \in Allocated :
               subs'[h].channel # subs[h].channel
                   => \/ /\ subs[h].channel # <<>>
                         /\ subs'[h].channel = Tail(subs[h].channel)
                      \/ /\ Len(subs[h].channel) < ChanBufferSize
                         /\ subs'[h].channel = Append(subs[h].channel, events) ]_vars

\* C19 witness: the pipeline goroutine waits at a send on a full, open channel
\* that holds an earlier event
C19_Witness ==
    /\ SendBlocked
    /\ ~subs[Head(pub.rv)].chanClosed
    /\ Head(subs[Head(pub.rv)].channel) < events
    /\ Running

\* The event in hand matched subscribers A and B: the pipeline goroutine waits at
\* the send on A's full channel, which no SSE request drains, while the request
\* serving B, its client connected and its channel with room, waits for the event
Stalled ==
    /\ Running
    /\ SendBlocked
    /\ ~subs[Head(pub.rv)].chanClosed
    /\ \A j \in Handlers : sse[j].pc = "idle" \/ sse[j].h # Head(pub.rv)
    /\ \E k \in Handlers :
          /\ sse[k].pc = "select" /\ ~sse[k].ctx
          /\ sse[k].h \in Range(Tail(pub.rv))
          /\ ~subs[sse[k].h].chanClosed
          /\ Len(subs[sse[k].h].channel) < ChanBufferSize

\* C20: a full channel that nobody drains holds back only its own subscriber:
\* whenever the event in hand waits on A's full channel and B is ready for it,
\* B is eventually sent the event, or A's channel is drained or closed, or B's
\* client goes away
C20_FullQueueIsolated == Stalled ~> ~Stalled

\* The step is a Close call: only Close sends on stopIdleCheck
CloseStep == stopIdleCheck' = stopIdleCheck + 1

\* The step is a DeleteSubscription of the age-out task that removes a subscription
SweeperDeletes ==
    /\ sweepPc = "delete"
    /\ idList' = Tail(idList)
    /\ subscriptions' # subscriptions

\* C21: a Close call ends every registered subscription (id emptied, channel
\* closed) and leaves the map and the list empty and the count 0; no channel is
\* ever closed twice, also when the age-out task is between two deletes of a
\* sweep; and once Close was called the age-out task deletes no subscription,
\* which could only be one created after the Close
C21_CloseStopsSweeper ==
    /\ [][ CloseStep =>
             /\ subscriptions' = {} /\ subscriptionList' = <<>> /\ numSubscriptions' = 0
             /\ \A h \in subscriptions : IsSubscriptionDeleted(h)' /\ subs'[h].chanClosed ]_vars
    /\ [](fault # "close of closed channel")
    /\ [][ (stopIdleCheck > 0 \/ sweepPc = "stopped") => ~SweeperDeletes ]_vars

\* C28: a registered subscription has an expiration time exactly when it is
\* neither active nor processing, whatever SetActive and SetProcess calls were
\* made on it
C28_ExpirationIffIdle ==
    \A h \in subscriptions :
        (subs[h].expiration # ZeroTime) <=> (~subs[h].active /\ ~subs[h].process)

\* The step is one of the SSE request goroutine k: each moves it in its code
SseMoves(k) == sse'[k].pc # sse[k].pc

\* The path names a subscription that was created: the prefix of the endpoint
\* followed by one component, the id
KnownId(path) == path.prefixed /\ path.tail = <<>> /\ path.id \in Allocated

\* C26: an SSE request with a method other than GET is answered 405; a GET whose
\* path is not the prefix followed by the id of a created subscription is
\* answered 404; a GET for a subscription found deleted, or found with a closed
\* channel, is answered 404; and no step of a request up to and including its
\* error response changes any subscription: none is made active, no message is
\* received from a channel, nothing is written to the client
C26_RejectedBeforeAttach ==
    /\ [][ \A k \in Handlers :
              (sse[k].pc = "idle" /\ SseMoves(k)) =>
                  /\ sse'[k].method # "GET" => sse'[k].pc = "405"
                  /\ (sse'[k].method = "GET" /\ ~KnownId(sse'[k].path)) => sse'[k].pc = "404" ]_vars
    /\ [][ \A k \in Handlers :
              (sse[k].pc = "check1" /\ SseMoves(k) /\ IsSubscriptionDeleted(sse[k].h))
                  => sse'[k].pc = "404" ]_vars
    /\ [][ \A k \in Handlers :
              (sse[k].pc = "check2" /\ SseMoves(k) /\ IsChannelClosed(sse[k].h))
                  => sse'[k].pc = "404" ]_vars
    /\ [][ \A k \in Handlers :
              (SseMoves(k) /\ sse[k].pc \in { "idle", "check1", "check2", "404", "405" })
                  => UNCHANGED subs /\ written'[k] = <<>> ]_vars

\* C26 witness: one request is answered 405 while another, for a deleted
\* subscription whose channel still holds a message, is answered 404
C26_Witness ==
    \E k, j \in Handlers :
        /\ sse[k].pc = "405"
        /\ sse[j].pc = "404"
        /\ sse[j].h \in Allocated
        /\ IsSubscriptionDeleted(sse[j].h)
        /\ subs[sse[j].h].channel # <<>>

\* The SSE request goroutine k is in its loop on subscription h, after
\* SetActive(true) and before the deferred SetActive(false)
Streaming(k, h) == sse[k].pc \in { "select", "write" } /\ sse[k].h = h

\* C29: a registered subscription is active as long as some SSE request
\* goroutine is in its loop on it, also when another request on the same
\* subscription has ended meanwhile
C29_ActiveWhileStreaming ==
    \A h \in subscriptions :
        (\E k \in Handlers : Streaming(k, h)) => subs[h].active

\* The lists a subscription has after Include of the prefixes of seq, in order
RECURSIVE IncludeAll(_, _)
IncludeAll(lists, seq) ==
    IF seq = <<>> THEN lists
    ELSE IncludeAll(IncludeLists(lists.includes, lists.excludes, Head(seq)), Tail(seq))

\* The lists a subscription has after Exclude of the prefixes of seq, in order
RECURSIVE ExcludeAll(_, _)
ExcludeAll(lists, seq) ==
    IF seq = <<>> THEN lists
    ELSE ExcludeAll(ExcludeLists(lists.includes, lists.excludes, Head(seq)), Tail(seq))

\* The includes of a body and then its excludes applied to a subscription with
\* empty lists
OnEmpty(body) ==
    ExcludeAll(IncludeAll([ includes |-> <<>>, excludes |-> <<>>, err |-> "ok" ], body.include),
               body.exclude)

\* C22: when a PUT, with no other request editing the subscription meanwhile,
\* is answered 200, the lists of the subscription are those that the includes
\* of the body and then its excludes produce on a subscription with empty lists
C22_PutReplaces ==
    \A c \in Clients :
        (mgmt[c].pc = "200" /\ mgmt[c].method = "PUT" /\ mgmt[c].h \in subscriptions)
            => /\ subs[mgmt[c].h].includes = OnEmpty(mgmt[c].body).includes
               /\ subs[mgmt[c].h].excludes = OnEmpty(mgmt[c].body).excludes

\* C22 witness: a PUT with includes and excludes in its body is answered 200 on
\* a subscription that had an include and an exclude of its own before
C22_Witness ==
    \E c \in Clients :
        /\ mgmt[c].pc = "200" /\ mgmt[c].method = "PUT" /\ mgmt[c].h \in subscriptions
        /\ mgmt[c].includes # <<>> /\ mgmt[c].excludes # <<>>
        /\ mgmt[c].body.include # <<>> /\ mgmt[c].body.exclude # <<>>
        /\ mgmt[c].includes # subs[mgmt[c].h].includes

\* Include of the prefixes of inc and then Exclude of those of exc, in order,
\* up to and including the first call that returns an error
RECURSIVE RunEdits(_, _, _)
RunEdits(lists, inc, exc) ==
    IF inc # <<>>
    THEN LET r == IncludeLists(lists.includes, lists.excludes, Head(inc)) IN
         IF r.err # "ok" THEN r ELSE RunEdits(r, Tail(inc), exc)
    ELSE IF exc # <<>>
    THEN LET r == ExcludeLists(lists.includes, lists.excludes, Head(exc)) IN
         IF r.err # "ok" THEN r ELSE RunEdits(r, inc, Tail(exc))
    ELSE lists

\* C23: when a PATCH is answered, the lists of the subscription are those that
\* the includes of the body in order and then its excludes in order produce on
\* the lists the subscription had, up to the first edit that fails: the edits
\* before it stay applied, none after it is applied, and the answer is 503
\* with the text of that error, or 200 if no edit fails
C23_PatchStopsAtFirstError ==
    \A c \in Clients :
        (mgmt[c].method = "PATCH" /\ mgmt[c].pc \in { "200", "503" }
                                 /\ mgmt[c].h \in subscriptions)
            => LET r == RunEdits([ includes |-> mgmt[c].includes,
                                   excludes |-> mgmt[c].excludes, err |-> "ok" ],
                                 mgmt[c].body.include, mgmt[c].body.exclude) IN
               /\ subs[mgmt[c].h].includes = r.includes
               /\ subs[mgmt[c].h].excludes = r.excludes
               /\ mgmt[c].pc = "503" <=> r.err # "ok"
               /\ mgmt[c].pc = "503" => mgmt[c].msg = r.err

\* C23 witness: a PATCH is answered 503 after an include of its body was
\* applied, with an exclude of the body not reached
C23_Witness ==
    \E c \in Clients :
        /\ mgmt[c].method = "PATCH" /\ mgmt[c].pc = "503" /\ mgmt[c].h \in subscriptions
        /\ mgmt[c].i >= 1
        /\ mgmt[c].body.exclude # <<>>
        /\ subs[mgmt[c].h].includes # mgmt[c].includes
        /\ mgmt[c].msg = "include limit reached"

\* The management request goroutine c serves a request whose id it has found
\* in g_subscriptions and which it has not answered yet
Serving(c) == mgmt[c].pc \notin Responses \cup { "idle" }

\* C24: a DELETE request on the id of a subscription that was created is
\* answered 200, whether the subscription is registered or was deleted before
C24_DeleteAlways200 ==
    [][ \A c \in Clients :
          (Serving(c) /\ mgmt[c].method = "DELETE" /\ mgmt'[c].pc \in Responses)
              => mgmt'[c].pc = "200" ]_vars

\* The include and exclude lists of every record
AllLists == [ h \in Recs |-> << subs[h].includes, subs[h].excludes >> ]

\* C25: a GET, PUT or PATCH request that is past the lookup of its id when its
\* subscription is found deleted is answered 404, and so is one whose id was
\* never created; no step of either changes an include or exclude list
C25_DeletedAnswers404 ==
    /\ [][ \A c \in Clients :
              (mgmt[c].pc \in { "process", "check1" } /\ IsSubscriptionDeleted(mgmt[c].h)
                  /\ mgmt[c].method \in { "GET", "PUT", "PATCH" }
                  /\ mgmt'[c].pc # mgmt[c].pc)
                  => mgmt'[c].pc \in { "check1", "404" } /\ AllLists' = AllLists ]_vars
    /\ [][ \A c \in Clients :
              (mgmt[c].pc = "idle" /\ mgmt'[c].pc # "idle" /\ mgmt'[c].h \notin Allocated)
                  => mgmt'[c].pc = "404" /\ AllLists' = AllLists ]_vars
    /\ [][ \A c \in Clients :
              (mgmt[c].pc = "404" /\ mgmt'[c].pc # "404") => AllLists' = AllLists ]_vars

\* C25 witness: a PUT with includes in its body is answered 404 on a subscription
\* that was created and then deleted
C25_Witness ==
    \E c \in Clients :
        /\ mgmt[c].pc = "404" /\ mgmt[c].method = "PUT"
        /\ mgmt[c].h \in Allocated /\ IsSubscriptionDeleted(mgmt[c].h)
        /\ subs[mgmt[c].h].process
        /\ mgmt[c].body.include # <<>>

\* The management request goroutine c is between its SetProcess(true) on
\* subscription h and its return
InFlight(c, h) == mgmt[c].pc \notin { "idle", "process" } /\ mgmt[c].h = h

\* C30: a registered subscription is processing as long as some management
\* request on it is between its SetProcess(true) and its return, also when
\* another request on the same subscription has returned meanwhile
C30_ProcessingWhileInFlight ==
    \A h \in subscriptions :
        (\E c \in Clients : InFlight(c, h)) => subs[h].process

\* The step is a call of Include, Exclude, SetActive, SetProcess or
\* DeleteSubscription on the record a; the first three are recorded in ret with
\* their argument
CallOn(a) ==
    \/ ret'.op = "Include" /\ ret'.h = a /\ Include(a, ret'.p)
    \/ ret'.op = "Exclude" /\ ret'.h = a /\ Exclude(a, ret'.p)
    \/ ret'.op = "Delete" /\ ret'.h = a /\ DeleteSubscription(a)
    \/ ret' = ret /\ \E b \in BOOLEAN : SetActive(a, b) \/ SetProcess(a, b)

\* C27: a call of Include, Exclude, SetActive, SetProcess or DeleteSubscription
\* on one subscription, whether it succeeds or fails, leaves every other
\* subscription as it was: its lists, its flags, its expiration, its id and its
\* channel
C27_OtherSubscriptionsUntouched ==
    [][ \A a \in Recs : CallOn(a) => \A b \in Recs \ {a} : subs'[b] = subs[b] ]_vars

\* C27 witness: an Include on one subscription has failed on the limit while
\* another, processing, has lists of its own and a message in its channel
C27_Witness ==
    /\ ret.op = "Include" /\ ret.err = "include limit reached"
    /\ \E b \in subscriptions \ {ret.h} :
          /\ subs[b].includes # <<>>
          /\ subs[b].channel # <<>>
          /\ subs[b].process

\* C31: when no management request is being served, no record is processing:
\* every request that called SetProcess(true) has called SetProcess(false)
\* before it returned, whatever its answer
C31_ProcessingReleased ==
    (\A c \in Clients : mgmt[c].pc = "idle") => \A h \in Recs : ~subs[h].process

\* C32: beside concurrent list edits, creations and deletions, the result of a
\* match never holds a queue twice, and a queue enters it only in a step in
\* which its subscription is active and the topic is under an include and under
\* no exclude of the lists the record holds at that instant
C32_MatchSeesHeldStates ==
    /\ [][ pub'.rv # pub.rv /\ pub.pc = "match" =>
              LET h == Head(pub.sublist) IN
                  /\ pub'.rv = Append(pub.rv, h)
                  /\ h \notin Range(pub.rv)
                  /\ subs[h].active
                  /\ Criterion(subs[h], pub.topic) ]_vars
    /\ [](\A i, j \in 1..Len(pub.rv) : pub.rv[i] = pub.rv[j] => i = j)

\* A match in progress holds the queue of a subscription that was edited since
\* and no longer matches, and goes on to the next record
C32_Witness ==
    /\ pub.pc = "match"
    /\ Len(pub.rv) = 1
    /\ pub.sublist # <<>>
    /\ subs[pub.rv[1]].active
    /\ ~Criterion(subs[pub.rv[1]], pub.topic)

\* C36: a PUT answered 400 for a body that cannot be parsed leaves the include
\* and exclude lists of its subscription as they were when the request read them
C36_RejectedPutKeepsLists ==
    \A c \in Editors :
        mgmt[c].pc = "400" /\ mgmt[c].method = "PUT" =>
            /\ subs[mgmt[c].h].includes = mgmt[c].includes
            /\ subs[mgmt[c].h].excludes = mgmt[c].excludes

\* C38: the index of the web package never holds more ids than the limit on
\* the number of subscriptions
C38_IndexWithinLimit == Cardinality(g_subscriptions) <= SubscriptionLimit

\* The prefix P, or a prefix of P, is an entry of the list
Covered(list, P) == \E x \in Range(list) : HasPrefix(P, x)

\* The statement of C37 without a condition on the opposite list: after every
\* successful Include the prefix is covered by the include list, and after every
\* successful Exclude by the exclude list
C37_SuccessCovers ==
    [][ ListCall /\ ret'.err = "ok" =>
        LET h == ret'.h
            P == endWithSlash(ret'.p)
        IN  IF ret'.op = "Include" THEN Covered(subs'[h].includes, P)
            ELSE Covered(subs'[h].excludes, P) ]_vars

\* C37: after a successful Include of a prefix that was not an entry of the
\* exclude list, the prefix is covered by the include list; a successful
\* Include of a prefix that was an entry of the exclude list removes that entry
\* and leaves the include list as it was; and the same for Exclude with the
\* lists swapped
C37_SuccessCoversUnlessCancelled ==
    [][ ListCall /\ ret'.err = "ok" =>
        LET h == ret'.h
            P == endWithSlash(ret'.p)
        IN  IF ret'.op = "Include"
            THEN IF P \in Range(subs[h].excludes)
                 THEN /\ subs'[h].includes = subs[h].includes
                      /\ Range(subs'[h].excludes) = Range(subs[h].excludes) \ {P}
                 ELSE Covered(subs'[h].includes, P)
            ELSE IF P \in Range(subs[h].includes)
                 THEN /\ subs'[h].excludes = subs[h].excludes
                      /\ Range(subs'[h].includes) = Range(subs[h].includes) \ {P}
                 ELSE Covered(subs'[h].excludes, P) ]_vars

\* A successful Exclude has stored its prefix as the one entry of the exclude
\* list, beside a non-empty include list
C37_Witness ==
    /\ ret.op = "Exclude"
    /\ ret.err = "ok"
    /\ ret.h # Nil
    /\ subs[ret.h].excludes = << endWithSlash(ret.p) >>
    /\ subs[ret.h].includes # <<>>
    /\ Len(ret.p) = 1

\* C39: a match that examines an active subscription while a PUT is between its
\* first and its last list call on it returns the subscription when the topic
\* is matched both by the lists the PUT found and by the lists it installs
C39_PutAtomicForMatch ==
    [][ \A c \in Editors :
          ( /\ pub.pc = "match"
            /\ pub.sublist # <<>>
            /\ pub'.sublist = Tail(pub.sublist)
            /\ mgmt[c].method = "PUT"
            /\ mgmt[c].pc \in { "putInclude", "putExclude", "patchInclude", "patchExclude" }
            /\ mgmt[c].body.valid
            /\ mgmt[c].h = Head(pub.sublist)
            /\ subs[mgmt[c].h].active
            /\ Criterion(mgmt[c], pub.topic)
            /\ Criterion(OnEmpty(mgmt[c].body), pub.topic) )
          => Head(pub.sublist) \in Range(pub'.rv) ]_vars

\* C35: no channel is closed a second time by DeleteSubscription calls for the
\* same id, the deletes of the age-out task and repeated Close calls: a record
\* whose channel is closed is in neither the map nor the list that these read
C35_ClosedAtMostOnce ==
    /\ fault # "close of closed channel"
    /\ \A h \in subscriptions \cup Range(subscriptionList) : ~subs[h].chanClosed

\* Close was called twice, the age-out task has stopped, and the last call of a
\* client was a DeleteSubscription for the id of a subscription already ended,
\* beside another ended subscription
C35_Witness ==
    /\ sweepPc = "stopped"
    /\ stopIdleCheck = 1
    /\ ret.op = "Delete"
    /\ subs[ret.h].chanClosed
    /\ \E h \in Allocated \ { ret.h } : subs[h].chanClosed

\* The record locks that goroutine t holds
SubLocksHeld(t) == { lk[t].held[i].l : i \in 1..Len(lk[t].held) } \ { SLock }

\* C33: no goroutine inside an operation of the manager holds the locks of two
\* different subscriptions at the same time
C33_OneRecordLockAtATime ==
    \A t \in LkThreads : Cardinality(SubLocksHeld(t)) <= 1

\* Goroutine t is inside an operation; its next statement can be executed
Busy(t) == lk[t].pc # "idle"
CanStep(t) ==
    /\ \A l \in WantsW(t) : CanLock(l)
    /\ \A l \in WantsR(t) : CanRLock(l)

\* C34: a goroutine that holds s.lock and record locks took s.lock first, and
\* one about to take s.lock holds no lock at all, the age-out task calling
\* DeleteSubscription included; and whenever some goroutine is inside an
\* operation, one of those inside can execute its next statement
C34_NoDeadlock ==
    /\ \A t \in LkThreads :
          /\ \A i \in 1..Len(lk[t].held) : lk[t].held[i].l = SLock => i = 1
          /\ SLock \in WantsW(t) \cup WantsR(t) => lk[t].held = <<>>
          /\ SubLocksHeld(t) # {} /\ ~Holds(t, SLock) => WantsW(t) \cup WantsR(t) = {}
    /\ (\E t \in LkThreads : Busy(t)) => \E t \in LkThreads : Busy(t) /\ CanStep(t)

\* The age-out task waits for s.lock to delete a subscription it has collected,
\* while a client inside Close holds s.lock and the locks of the records, and
\* another client waits for the lock of one of these records
C34_Witness ==
    /\ lk[Sweeper].pc = "del.s"
    /\ \E t \in Lockers : /\ lk[t].pc = "close.loop"
                           /\ SubLocksHeld(t) # {}
                           /\ \E u \in Lockers : lk[u].pc = "act.sub" /\ lk[u].h \in SubLocksHeld(t)

\* C40: the list a caller reads through the slice returned by SubscriptionInfo
\* stays the list it was on return, whatever Include and Exclude calls are made
\* on the subscription afterwards
C40_ReturnedListStable ==
    \A h \in Allocated : mem[h].got # "none" => Returned(mem[h]) = mem[h].seen

====
